---- MODULE Spec2Model ----
(***************************************************************************)
(* State-machine model of FaissManager (src/core/faiss_connect.py): one    *)
(* collection name, its four in-memory caches, its four on-disk artifacts  *)
(* and its entry of collections_info.json.                                 *)
(*                                                                         *)
(* Vectors are points k * 0.05 on one axis of the index's space, so the    *)
(* squared L2 distance FAISS reports between points a and b is             *)
(* 0.0025 * (a-b)^2; distances are kept in units of 1e-4.                  *)
(***************************************************************************)
EXTENDS Integers, Sequences, FiniteSets, TLC

VARIABLES indexes, metadata, file_registry, file_change_history,
          disk_index, disk_meta, disk_registry, disk_history,
          collections_info, last, calls

vars == <<indexes, metadata, file_registry, file_change_history,
          disk_index, disk_meta, disk_registry, disk_history,
          collections_info, last, calls>>

(* ------------------------------ bounds --------------------------------- *)
MaxBatch == 2
MaxVecs == 3
MaxHist == 5
MaxVersions == 2
MaxTopK == 4
MaxVersionsLong == 3
MaxHistLong == 7
FarQuery == 600

(* -------------------------- program constants -------------------------- *)
DefaultDim == 512
DedupThresholdE4 == 100

(* ------------------------------ inputs --------------------------------- *)
Vals == 0..2
Paths == {[dir |-> "docs", base |-> "a.txt"], [dir |-> "tmp", base |-> "b.txt"]}
Files == {"a.txt", "b.txt"}
\* a batch is listed in non-decreasing order: the positions in a batch are
\* interchangeable, each vector is screened against the stored ones only
VecSeqs == {q \in UNION {[1..n -> Vals] : n \in 1..MaxBatch} : \A i \in 1..(Len(q) - 1) : q[i] <= q[i + 1]}

basename(p) == p.base

\* the text the caller supplies with the vector v at position i of a batch
TextOf(v, i) == 100 + 10 * i + v

(* ------------------------------ values --------------------------------- *)
\* torn: the file is there and what a failed write left in it cannot be read
\* back; a cache entry is never torn
NoIndex == [present |-> FALSE, torn |-> FALSE, d |-> 0, vecs |-> <<>>]
EmptyIndex(dim) == [present |-> TRUE, torn |-> FALSE, d |-> dim, vecs |-> <<>>]
TornIndex == [present |-> TRUE, torn |-> TRUE, d |-> 0, vecs |-> <<>>]

\* a Metadata Entry: text, the file annotation of metadata.file_name, and the
\* repaired flag; EmptyEntry is the Python {}
EmptyEntry == [text |-> 0, file_name |-> "", repaired |-> FALSE]
InputEntry(v, i) == [text |-> TextOf(v, i), file_name |-> "", repaired |-> FALSE]

\* a Metadata Table is a Python list (items) or a Python dict with int keys
\* (imap) and str keys (smap)
NoMeta ==
    [present |-> FALSE, torn |-> FALSE, kind |-> "list", items |-> <<>>, imap |-> <<>>,
     smap |-> <<>>]
ListMeta(q) ==
    [present |-> TRUE, torn |-> FALSE, kind |-> "list", items |-> q, imap |-> <<>>,
     smap |-> <<>>]
DictMeta(im, sm) ==
    [present |-> TRUE, torn |-> FALSE, kind |-> "dict", items |-> <<>>, imap |-> im,
     smap |-> sm]
TornMeta == [ListMeta(<<>>) EXCEPT !.torn = TRUE]

MetaLen(m) ==
    IF m.kind = "list" THEN Len(m.items)
    ELSE Cardinality(DOMAIN m.imap) + Cardinality(DOMAIN m.smap)

NoRegistry == [present |-> FALSE, torn |-> FALSE, entries |-> <<>>]
Registry(es) == [present |-> TRUE, torn |-> FALSE, entries |-> es]
TornRegistry == [Registry(<<>>) EXCEPT !.torn = TRUE]

NoHistory == [present |-> FALSE, torn |-> FALSE, events |-> <<>>]
History(es) == [present |-> TRUE, torn |-> FALSE, events |-> es]
TornHistory == [History(<<>>) EXCEPT !.torn = TRUE]

\* the entry of the collection in collections_info.json
NoInfo == [present |-> FALSE, dimension |-> 0, vectors_count |-> 0, files_count |-> 0]
Info(dim) == [present |-> TRUE, dimension |-> dim, vectors_count |-> 0, files_count |-> 0]

NoPath == [dir |-> "", base |-> ""]

\* a registry item whose value is a dict (a File Record)
FileEntry(name, path, vc, vs, cur) ==
    [key |-> name, is_file |-> TRUE, file_path |-> path, vector_count |-> vc,
     versions |-> vs, current_version |-> cur, val |-> 0]

\* a registry item whose value is a string or a number ("_last_updated", ...)
ScalarEntry(name, v) ==
    [key |-> name, is_file |-> FALSE, file_path |-> NoPath, vector_count |-> 0,
     versions |-> <<>>, current_version |-> 0, val |-> v]

Version(n, ids) == [version |-> n, vector_count |-> Len(ids), vector_ids |-> ids]

Event(type, file) == [event_type |-> type, file_name |-> file]

(* ------------------------- sequence helpers ---------------------------- *)
Range(q) == {q[i] : i \in DOMAIN q}

RECURSIVE SeqSum(_)
SeqSum(q) == IF q = <<>> THEN 0 ELSE Head(q) + SeqSum(Tail(q))

RECURSIVE FilterSeq(_, _)
\* [x for x in q if x not in drop]
FilterSeq(q, drop) ==
    IF q = <<>> THEN <<>>
    ELSE IF Head(q) \in drop THEN FilterSeq(Tail(q), drop)
         ELSE <<Head(q)>> \o FilterSeq(Tail(q), drop)

SetMax(S) == CHOOSE x \in S : \A y \in S : y <= x
SetMin(S) == CHOOSE x \in S : \A y \in S : x <= y

\* the ids start one too high
IdRangeShifted(a, n) == [i \in 1..n |-> a + i]

\* range(a, a + n) as a list
IdRange(a, n) == [i \in 1..n |-> a + i - 1]

(* --------------------------- the store --------------------------------- *)
\* the record the operations work on: the caches of self.indexes, self.metadata,
\* self.file_registry, self.file_change_history for the collection, and the files
Store ==
    [idx |-> indexes, meta |-> metadata, reg |-> file_registry,
     hist |-> file_change_history, f_idx |-> disk_index, f_meta |-> disk_meta,
     f_reg |-> disk_registry, f_hist |-> disk_history, info |-> collections_info]

R(s, ret) == [s |-> s, ret |-> ret]

(* ---------------------------- persistence ------------------------------ *)
\* json.dump of a Metadata Table followed by json.load: a list stays a list, a
\* dict's int keys become str keys (a str key written later wins a collision)
JsonMeta(m) ==
    IF m.kind = "list" THEN m
    ELSE DictMeta(<<>>,
                  [k \in (DOMAIN m.imap) \cup (DOMAIN m.smap) |->
                      IF k \in DOMAIN m.smap THEN m.smap[k] ELSE m.imap[k]])

collection_exists(s) ==
    s.idx.present \/ (s.f_idx.present /\ s.f_meta.present)

\* a file that cannot be read is not loaded; for the three JSON artifacts the
\* cache entry is then the empty dict or list and the load reports failure
_load_index(s) ==
    IF s.f_idx.present /\ ~s.f_idx.torn THEN R([s EXCEPT !.idx = s.f_idx], TRUE)
    ELSE R(s, FALSE)

_load_metadata(s) ==
    IF ~s.f_meta.present THEN R([s EXCEPT !.meta = DictMeta(<<>>, <<>>)], TRUE)
    ELSE IF s.f_meta.torn THEN R([s EXCEPT !.meta = DictMeta(<<>>, <<>>)], FALSE)
    ELSE R([s EXCEPT !.meta = s.f_meta], TRUE)

_load_file_registry(s) ==
    IF ~s.f_reg.present THEN R([s EXCEPT !.reg = Registry(<<>>)], TRUE)
    ELSE IF s.f_reg.torn THEN R([s EXCEPT !.reg = Registry(<<>>)], FALSE)
    ELSE R([s EXCEPT !.reg = s.f_reg], TRUE)

_load_file_history(s) ==
    IF ~s.f_hist.present THEN R([s EXCEPT !.hist = History(<<>>)], TRUE)
    ELSE IF s.f_hist.torn THEN R([s EXCEPT !.hist = History(<<>>)], FALSE)
    ELSE R([s EXCEPT !.hist = s.f_hist], TRUE)

_save_index(s) ==
    IF s.idx.present THEN R([s EXCEPT !.f_idx = s.idx], TRUE) ELSE R(s, FALSE)

\* nothing is written and success is reported
_save_metadata_skipped(s) == R(s, s.meta.present)

_save_metadata(s) ==
    IF s.meta.present THEN R([s EXCEPT !.f_meta = JsonMeta(s.meta)], TRUE)
    ELSE R(s, FALSE)

HasKey(es, k) == \E i \in DOMAIN es : es[i].key = k
KeyPos(es, k) == CHOOSE i \in DOMAIN es : es[i].key = k

\* d[k] = v for a scalar value: in place if the key is there, else appended
SetScalar(es, k, v) ==
    IF HasKey(es, k) THEN [es EXCEPT ![KeyPos(es, k)] = ScalarEntry(k, v)]
    ELSE Append(es, ScalarEntry(k, v))

IsUnderscore(k) == k \in {"_created_at", "_last_updated", "_file_count", "_vector_count"}

FileCount(es) == Cardinality({i \in DOMAIN es : ~IsUnderscore(es[i].key) /\ es[i].is_file})

FileVectorSum(es) ==
    SeqSum([i \in DOMAIN es |->
               IF ~IsUnderscore(es[i].key) /\ es[i].is_file THEN es[i].vector_count ELSE 0])

EmptyRegistryItems ==
    <<ScalarEntry("_created_at", 0), ScalarEntry("_last_updated", 0),
      ScalarEntry("_file_count", 0), ScalarEntry("_vector_count", 0)>>

_save_file_registry(s) ==
    IF ~s.reg.present THEN R(s, FALSE)
    ELSE LET es == s.reg.entries
             es1 == IF Len(es) = 0 THEN EmptyRegistryItems
                    ELSE LET a == SetScalar(es, "_last_updated", 0)
                             b == SetScalar(a, "_file_count", FileCount(a))
                         IN  SetScalar(b, "_vector_count", FileVectorSum(a))
         IN  R([s EXCEPT !.reg = Registry(es1), !.f_reg = Registry(es1)], TRUE)

_save_file_history(s) ==
    IF s.hist.present THEN [s EXCEPT !.f_hist = s.hist] ELSE s

\* _record_collection_event / _record_file_event (file = "" for a collection event)
RecordEvent(s, type, file) ==
    LET old == IF s.hist.present THEN s.hist.events ELSE <<>>
    IN  _save_file_history([s EXCEPT !.hist = History(Append(old, Event(type, file)))])

(* --------------------------- create_collection ------------------------- *)
\* index_type "Flat": the index, [] as metadata, {} as registry, [] as history
\* and the collections_info.json entry are written; no cache is filled
create_collection(s, dim) ==
    IF s.f_idx.present THEN R(s, FALSE)
    ELSE R([s EXCEPT !.f_idx = EmptyIndex(dim), !.f_meta = ListMeta(<<>>),
                     !.f_reg = Registry(<<>>), !.f_hist = History(<<>>),
                     !.info = Info(dim)], TRUE)

\* the writes of create_collection that can fail once the index file is written
CreateFaults == {"metadata", "registry", "history", "info"}

\* create_collection when the write named by fault raises. The except block of
\* a write removes the files written before it. left: the failing write had
\* opened its file for writing before it raised, so that file is there, torn
\* (for collections_info.json: emptied, which reads back as no entry)
create_collection_under(s, dim, fault, left) ==
    IF s.f_idx.present THEN R(s, FALSE)
    ELSE IF fault = "metadata"
    THEN R([s EXCEPT !.f_meta = IF left THEN TornMeta ELSE @], FALSE)
    ELSE IF fault = "registry"
    THEN R([s EXCEPT !.f_meta = NoMeta, !.f_reg = IF left THEN TornRegistry ELSE @], FALSE)
    ELSE IF fault = "history"
    THEN R([s EXCEPT !.f_meta = NoMeta, !.f_reg = NoRegistry,
                     !.f_hist = IF left THEN TornHistory ELSE @], FALSE)
    ELSE IF fault = "info"
    THEN R([s EXCEPT !.f_meta = NoMeta, !.f_reg = NoRegistry, !.f_hist = NoHistory,
                     !.info = IF left THEN NoInfo ELSE @], FALSE)
    ELSE create_collection(s, dim)

_ensure_collection_exists(s) ==
    IF ~collection_exists(s) THEN create_collection(s, DefaultDim) ELSE R(s, TRUE)

(* ---------------------------- load_collection -------------------------- *)
\* vectors_count and files_count of an entry that exists are overwritten
_update_collection_stats(s, vc, fc) ==
    IF s.info.present THEN [s EXCEPT !.info.vectors_count = vc, !.info.files_count = fc]
    ELSE s

\* the four artifacts are read into the caches; a missing metadata, registry
\* or history artifact is written empty
load_collection(s) ==
    IF ~s.f_idx.present THEN R(s, FALSE)
    ELSE LET m == IF s.f_meta.present THEN s.f_meta ELSE ListMeta(<<>>)
             r == IF s.f_reg.present THEN s.f_reg ELSE Registry(<<>>)
             h == IF s.f_hist.present THEN s.f_hist ELSE History(<<>>)
             s1 == [s EXCEPT !.idx = s.f_idx, !.meta = m, !.f_meta = m,
                             !.reg = r, !.f_reg = r, !.hist = h, !.f_hist = h]
         IN  R(_update_collection_stats(s1, MetaLen(m), Len(r.entries)), TRUE)

(* ------------------------------ add_vectors ---------------------------- *)
\* a key the returned dict does not have
NoValue == 0 - 1

AddRet(status, count, dups, fname) ==
    [status |-> status, count |-> count, duplicates |-> dups, file_name |-> fname]

AddErr == AddRet("error", NoValue, NoValue, "")

\* squared L2 distance of two grid points, in units of 1e-4
DistE4(a, b) == 25 * (a - b) * (a - b)

\* D[0][0] of index.search(vector, 1) on a non-empty index
NearestDist(vecs, v) == SetMin({DistE4(vecs[j], v) : j \in DOMAIN vecs})

\* a vector exactly at the threshold distance counts as a duplicate too
IsDuplicateInclusive(vecs, v) == NearestDist(vecs, v) <= DedupThresholdE4

\* D[0][0] < 0.01 for the nearest stored vector
IsDuplicate(vecs, v) == NearestDist(vecs, v) < DedupThresholdE4

\* the accepted entries are not stored
ExtendMetaSkipped(m, before, metas) == m

\* collection_metadata.extend(acc) / collection_metadata[str(before + i)] = acc[i]
ExtendMeta(m, before, metas) ==
    IF m.kind = "list" THEN ListMeta(m.items \o metas)
    ELSE LET new == {before + i - 1 : i \in 1..Len(metas)}
         IN  DictMeta(m.imap,
                      [k \in (DOMAIN m.smap) \cup new |->
                          IF k \in new THEN metas[k - before + 1] ELSE m.smap[k]])

\* the entries at vector_idx = before .. before + n - 1 get metadata.file_name
AnnotateMeta(m, before, n, fname) ==
    LET new == {before + i - 1 : i \in 1..n}
    IN  IF m.kind = "list"
        THEN ListMeta([j \in DOMAIN m.items |->
                         IF (j - 1) \in new THEN [m.items[j] EXCEPT !.file_name = fname]
                         ELSE m.items[j]])
        ELSE DictMeta(m.imap,
                      [k \in DOMAIN m.smap |->
                          IF k \in new THEN [m.smap[k] EXCEPT !.file_name = fname]
                          ELSE m.smap[k]])

NextVersion(vs) ==
    IF vs = <<>> THEN 1 ELSE SetMax({vs[j].version : j \in DOMAIN vs}) + 1

\* the ids of the new version are counted from 0
UpdateFileRecordFromZero(es, fname, path, before, added) ==
    IF ~HasKey(es, fname)
    THEN Append(es, FileEntry(fname, path, added, <<Version(1, IdRange(0, added))>>, 1))
    ELSE LET p == KeyPos(es, fname)
             nv == IF es[p].versions = <<>> THEN 1
                   ELSE SetMax({es[p].versions[j].version : j \in DOMAIN es[p].versions}) + 1
         IN  [es EXCEPT ![p] = [@ EXCEPT !.vector_count = @ + added,
                                         !.versions = Append(@, Version(nv, IdRange(0, added))),
                                         !.current_version = nv]]

\* the new version is numbered one above the current version
UpdateFileRecordFromCurrent(es, fname, path, before, added) ==
    IF ~HasKey(es, fname)
    THEN Append(es, FileEntry(fname, path, added, <<Version(1, IdRange(before, added))>>, 1))
    ELSE LET p == KeyPos(es, fname)
             nv == es[p].current_version + 1
         IN  [es EXCEPT ![p] = [@ EXCEPT !.vector_count = @ + added,
                                         !.versions = Append(@, Version(nv, IdRange(before, added))),
                                         !.current_version = nv]]

\* the File Record of fname is created with version 1 or gains a version
UpdateFileRecord(es, fname, path, before, added) ==
    IF ~HasKey(es, fname)
    THEN Append(es, FileEntry(fname, path, added, <<Version(1, IdRange(before, added))>>, 1))
    ELSE LET p == KeyPos(es, fname)
             nv == NextVersion(es[p].versions)
         IN  [es EXCEPT ![p] = [@ EXCEPT !.vector_count = @ + added,
                                         !.versions = Append(@, Version(nv, IdRange(before, added))),
                                         !.current_version = nv]]

NonUnderscoreKeys(es) == Cardinality({i \in DOMAIN es : ~IsUnderscore(es[i].key)})

\* index.add(acc) and everything after it, up to the return
\* the saves of add_vectors that can fail
SaveFaults == {"index", "metadata", "registry"}

\* _save_index, _save_metadata and _save_file_registry when the write raises:
\* the exception is caught and False is returned. left: the write had opened
\* its file before it raised, so the file is torn; otherwise the file is as it
\* was. _save_file_registry has refreshed the "_" keys of the cache by then
_save_index_failing(s, left) ==
    R([s EXCEPT !.f_idx = IF left THEN TornIndex ELSE @], FALSE)

_save_metadata_failing(s, left) ==
    R([s EXCEPT !.f_meta = IF left THEN TornMeta ELSE @], FALSE)

_save_file_registry_failing(s, left) ==
    R([_save_file_registry(s).s EXCEPT !.f_reg = IF left THEN TornRegistry ELSE s.f_reg],
      FALSE)

\* the saves stop at the first one that fails
SaveAllStopping(s, fails, left) ==
    LET r1 == IF "index" \in fails THEN _save_index_failing(s, left) ELSE _save_index(s)
        r2 == IF "metadata" \in fails THEN _save_metadata_failing(r1.s, left)
              ELSE _save_metadata(r1.s)
        r3 == IF "registry" \in fails THEN _save_file_registry_failing(r2.s, left)
              ELSE _save_file_registry(r2.s)
    IN  IF ~r1.ret THEN r1 ELSE IF ~r2.ret THEN r2 ELSE r3

\* index_saved, metadata_saved, registry_saved: the three saves are called one
\* after the other whatever the earlier ones returned
SaveAll(s, fails, left) ==
    LET r1 == IF "index" \in fails THEN _save_index_failing(s, left) ELSE _save_index(s)
        r2 == IF "metadata" \in fails THEN _save_metadata_failing(r1.s, left)
              ELSE _save_metadata(r1.s)
        r3 == IF "registry" \in fails THEN _save_file_registry_failing(r2.s, left)
              ELSE _save_file_registry(r2.s)
    IN  R(r3.s, r1.ret /\ r2.ret /\ r3.ret)

AddAcceptedUnder(s, acc, dups, path, fails, left) ==
    LET before == Len(s.idx.vecs)
        added == Len(acc)
        fname == basename(path)
        idx1 == [s.idx EXCEPT !.vecs = @ \o [i \in 1..added |-> acc[i].vec]]
        m1 == ExtendMeta(s.meta, before, [i \in 1..added |-> acc[i].meta])
        es1 == UpdateFileRecord(s.reg.entries, fname, path, before, added)
        s1 == RecordEvent([s EXCEPT !.idx = idx1, !.meta = m1, !.reg = Registry(es1)],
                          IF HasKey(s.reg.entries, fname) THEN "file_updated" ELSE "file_added",
                          fname)
        m2 == AnnotateMeta(m1, before, added, fname)
        es2 == SetScalar(SetScalar(SetScalar(es1, "_last_updated", 0),
                                   "_file_count", NonUnderscoreKeys(es1)),
                         "_vector_count", Len(idx1.vecs))
        s2 == [s1 EXCEPT !.meta = m2, !.reg = Registry(es2)]
        saved == SaveAll(s2, fails, left)
    IN  IF ~saved.ret
        THEN R(RecordEvent(saved.s, "save_failed", ""), AddErr)
        ELSE R(RecordEvent(saved.s, "vectors_added", ""),
               AddRet("success", added, dups, fname))

AddAccepted(s, acc, dups, path) == AddAcceptedUnder(s, acc, dups, path, {}, FALSE)

\* the batch is screened against itself: an item within the threshold of an
\* earlier item of the batch is dropped
vectors_to_add_screened(items) ==
    LET keep == SelectSeq([i \in DOMAIN items |-> i],
                          LAMBDA i : ~\E j \in 1..(i - 1) :
                                        DistE4(items[j].vec, items[i].vec) < DedupThresholdE4)
    IN  [k \in DOMAIN keep |-> items[keep[k]]]

\* vectors_to_add = np.array(vectors): an empty index takes the whole batch
vectors_to_add(items) == items

\* the caches the insert needs are loaded on demand; an index or a metadata
\* file that cannot be loaded ends the insert, a registry that cannot be loaded
\* is started afresh and saved
LoadForAdd(s) ==
    LET a == IF s.idx.present THEN R(s, TRUE) ELSE _load_index(s)
        b == IF a.s.meta.present THEN R(a.s, TRUE) ELSE _load_metadata(a.s)
        c == IF b.s.reg.present THEN R(b.s, TRUE) ELSE _load_file_registry(b.s)
        fresh == _save_file_registry([c.s EXCEPT !.reg = Registry(EmptyRegistryItems)]).s
    IN  IF ~a.ret THEN R(a.s, FALSE)
        ELSE IF ~b.ret THEN R(b.s, FALSE)
        ELSE R(IF c.ret THEN c.s ELSE fresh, TRUE)

add_vectors_under(s, d, items, path, fails, left) ==
    LET e == IF collection_exists(s) THEN R(s, TRUE) ELSE _ensure_collection_exists(s)
        l == LoadForAdd(e.s)
        t == l.s
        acc == SelectSeq(items, LAMBDA it : ~IsDuplicate(t.idx.vecs, it.vec))
        dups == Len(items) - Len(acc)
    IN  IF ~e.ret THEN R(e.s, AddErr)
        ELSE IF ~l.ret THEN R(l.s, AddErr)
        ELSE IF Len(t.idx.vecs) = 0
             THEN IF d # t.idx.d THEN R(RecordEvent(t, "add_vectors_error", ""), AddErr)
                  ELSE AddAcceptedUnder(t, vectors_to_add(items), NoValue, path, fails, left)
        ELSE IF d # t.idx.d THEN R(RecordEvent(t, "critical_error", ""), AddErr)
        ELSE IF acc # <<>> THEN AddAcceptedUnder(t, acc, dups, path, fails, left)
        ELSE R(RecordEvent(t, "all_vectors_duplicate", ""),
               AddRet("success", 0, dups, basename(path)))

add_vectors(s, d, items, path) == add_vectors_under(s, d, items, path, {}, FALSE)

\* the vectors and metadata entries a caller passes
Items(vecs) == [i \in 1..Len(vecs) |-> [vec |-> vecs[i], meta |-> InputEntry(vecs[i], i)]]

(* ----------------------------- delete_vectors -------------------------- *)
\* one File Record's versions lose the deleted ids; a changed count is logged
RECURSIVE DeleteFromVersions(_, _, _, _)
DeleteFromVersions(s, i, j, ids) ==
    LET vs == s.reg.entries[i].versions
    IN  IF j > Len(vs) THEN s
        ELSE LET kept == FilterSeq(vs[j].vector_ids, ids)
                 s1 == [s EXCEPT !.reg.entries[i].versions[j] =
                                    [@ EXCEPT !.vector_ids = kept, !.vector_count = Len(kept)]]
                 s2 == IF vs[j].vector_count # Len(kept)
                       THEN RecordEvent(s1, "vector_delete", s.reg.entries[i].key)
                       ELSE s1
             IN  DeleteFromVersions(s2, i, j + 1, ids)

\* for file_name, file_info in registry.items(): file_info['versions'] raises
\* TypeError at the first item whose value is no dict; the items before it
\* stay updated
RECURSIVE DeleteFromRegistry(_, _, _)
DeleteFromRegistry(s, i, ids) ==
    IF i > Len(s.reg.entries) THEN R(s, TRUE)
    ELSE IF ~s.reg.entries[i].is_file THEN R(s, FALSE)
    ELSE DeleteFromRegistry(DeleteFromVersions(s, i, 1, ids), i + 1, ids)

\* new_metadata[i] = self.metadata[name].get(i, {}) for the retained ids i:
\* a dict keyed by the old int ids; a list has no get (AttributeError)
RebuildMetadata(m, retained) ==
    DictMeta([i \in retained |-> IF i \in DOMAIN m.imap THEN m.imap[i] ELSE EmptyEntry], <<>>)

\* new_index = faiss.IndexFlatL2(index.d); no vector is added to it
RebuildIndex(idx, retained) == EmptyIndex(idx.d)

LoadForDelete(s) ==
    LET a == IF s.idx.present THEN s ELSE _load_index(s).s
        b == IF a.meta.present THEN a ELSE _load_metadata(a).s
        c == IF b.reg.present THEN b ELSE _load_file_registry(b).s
    IN  IF c.hist.present THEN c ELSE _load_file_history(c).s

delete_vectors(s, ids) ==
    LET t == LoadForDelete(s)
        total == Len(t.idx.vecs)
        retained == {i \in 0..(total - 1) : i \notin ids}
        lp == DeleteFromRegistry(t, 1, ids)
        s1 == [lp.s EXCEPT !.idx = RebuildIndex(t.idx, retained),
                           !.meta = RebuildMetadata(t.meta, retained)]
        s2 == _save_file_registry(_save_metadata(_save_index(s1).s).s).s
    IN  IF ~collection_exists(s) THEN R(s, FALSE)
        ELSE IF ~t.idx.present THEN R(t, FALSE)
        ELSE IF total = 0 THEN R(t, TRUE)
        ELSE IF retained # {} /\ t.meta.kind = "list" THEN R(t, FALSE)
        ELSE IF ~lp.ret THEN R(lp.s, FALSE)
        ELSE R(RecordEvent(s2, "vector_delete", ""), TRUE)

(* ------------------------------- delete_file --------------------------- *)
\* file_info.get("vector_ids", []): a File Record has no such key, its ids are
\* in its versions
RecordVectorIds(e) == <<>>

RemoveKey(es, k) == SelectSeq(es, LAMBDA e : e.key # k)

LoadForFile(s) ==
    LET a == IF s.idx.present THEN s ELSE _load_index(s).s
        b == IF a.meta.present THEN a ELSE _load_metadata(a).s
    IN  IF b.reg.present THEN b ELSE _load_file_registry(b).s

delete_file(s, fname) ==
    LET e == _ensure_collection_exists(s)
        t == LoadForFile(e.s)
        ids == RecordVectorIds(t.reg.entries[KeyPos(t.reg.entries, fname)])
        u == IF ids # <<>> THEN delete_vectors(t, Range(ids)).s ELSE t
        w == _save_file_registry([u EXCEPT !.reg.entries = RemoveKey(@, fname)]).s
    IN  IF ~e.ret THEN R(e.s, FALSE)
        ELSE IF ~HasKey(t.reg.entries, fname) THEN R(t, FALSE)
        ELSE R(RecordEvent(w, "delete", fname), TRUE)

(* ------------------------------ replace_file --------------------------- *)
\* the value replace_file returns: False, or the dict add_vectors returned,
\* which is truthy whatever its status
ReplaceRet(truthy, add) == [ok |-> truthy, add |-> add]

CurrentVersionIds(e) ==
    LET hit == {j \in DOMAIN e.versions : e.versions[j].version = e.current_version}
    IN  IF hit = {} THEN [found |-> FALSE, ids |-> <<>>]
        ELSE [found |-> TRUE, ids |-> e.versions[SetMin(hit)].vector_ids]

replace_file(s, d, items, path) ==
    LET t == LoadForFile(s)
        fname == basename(path)
        cur == CurrentVersionIds(t.reg.entries[KeyPos(t.reg.entries, fname)])
        u == IF HasKey(t.reg.entries, fname) /\ cur.found
             THEN delete_vectors(t, Range(cur.ids)).s
             ELSE t
        a == add_vectors(u, d, items, path)
    IN  IF ~collection_exists(s) THEN R(s, ReplaceRet(FALSE, AddErr))
        ELSE R(a.s, ReplaceRet(TRUE, a.ret))

(* -------------------------- restore_file_version ----------------------- *)
\* the restored version becomes the only version of the record
restore_file_version_pruning(s, fname, version) ==
    LET t == IF s.reg.present THEN s ELSE _load_file_registry(s).s
        p == KeyPos(t.reg.entries, fname)
        hit == {j \in DOMAIN t.reg.entries[p].versions :
                   t.reg.entries[p].versions[j].version = version}
    IN  IF ~collection_exists(s) THEN R(s, FALSE)
        ELSE IF ~HasKey(t.reg.entries, fname) THEN R(t, FALSE)
        ELSE IF hit = {} THEN R(t, FALSE)
        ELSE R(_save_file_registry(
                   [t EXCEPT !.reg.entries[p].current_version = version,
                             !.reg.entries[p].versions =
                                 <<t.reg.entries[p].versions[SetMin(hit)]>>]).s, TRUE)

\* the pointer is set without looking the version up
restore_file_version_unchecked(s, fname, version) ==
    LET t == IF s.reg.present THEN s ELSE _load_file_registry(s).s
        p == KeyPos(t.reg.entries, fname)
    IN  IF ~collection_exists(s) THEN R(s, FALSE)
        ELSE IF ~HasKey(t.reg.entries, fname) THEN R(t, FALSE)
        ELSE R(_save_file_registry([t EXCEPT !.reg.entries[p].current_version = version]).s,
               TRUE)

restore_file_version(s, fname, version) ==
    LET t == IF s.reg.present THEN s ELSE _load_file_registry(s).s
        p == KeyPos(t.reg.entries, fname)
    IN  IF ~collection_exists(s) THEN R(s, FALSE)
        ELSE IF ~HasKey(t.reg.entries, fname) THEN R(t, FALSE)
        ELSE IF \A j \in DOMAIN t.reg.entries[p].versions :
                    t.reg.entries[p].versions[j].version # version
             THEN R(t, FALSE)
        ELSE IF t.reg.entries[p].current_version = version THEN R(t, TRUE)
        ELSE R(_save_file_registry([t EXCEPT !.reg.entries[p].current_version = version]).s,
               TRUE)

(* ----------------------- diagnose_knowledge_base ----------------------- *)
\* what _load_index, _load_metadata and _load_file_registry return is a Python
\* bool, and diagnose and repair keep it as index, metadata and file_registry
PyBool(b) == [type |-> "bool", truth |-> b]

\* v.ntotal and len(v): a bool has neither (AttributeError, TypeError)
HasNtotal(v) == v.type = "index"
HasLen(v) == v.type \in {"list", "dict"}

DiagRet(exists, consistent, issues, status) ==
    [collection_exists |-> exists, is_consistent |-> consistent, issues |-> issues,
     status |-> status]

diagnose_knowledge_base(s) ==
    LET a == _load_index(s)
        b == _load_metadata(a.s)
        c == _load_file_registry(b.s)
        index == PyBool(a.ret)
        meta == PyBool(b.ret)
        registry == PyBool(c.ret)
        \* index.ntotal if index else 0; len(metadata) if metadata else 0; each
        \* in a try of its own that appends an issue
        i1 == IF index.truth /\ ~HasNtotal(index) THEN {"load_index_failed"} ELSE {}
        i2 == IF meta.truth /\ ~HasLen(meta) THEN {"load_metadata_failed"} ELSE {}
        i3 == IF registry.truth /\ ~HasLen(registry) THEN {"load_registry_failed"} ELSE {}
        \* index and metadata are not None; isinstance(metadata, list) and
        \* index.ntotal == len(metadata), the same for a dict
        equal == /\ HasNtotal(index) /\ HasLen(meta)
                 /\ Len(c.s.idx.vecs) = MetaLen(c.s.meta)
        \* otherwise is_consistent is False and the size-mismatch issue formats
        \* index.ntotal, which raises into the outer except
        raised == ~equal /\ ~HasNtotal(index)
        issues == i1 \cup i2 \cup i3 \cup
                  (IF raised THEN {"diagnose_error"}
                   ELSE IF ~equal THEN {"size_mismatch"} ELSE {})
    IN  IF ~collection_exists(s)
        THEN R(s, DiagRet(FALSE, FALSE, {"not_found"}, "error"))
        ELSE R(c.s, DiagRet(TRUE, equal, issues,
                            IF raised THEN "error"
                            ELSE IF issues # {} THEN "warning" ELSE "ok"))

(* ------------------------ repair_knowledge_base ------------------------ *)
RepairRet(success, status, repairs) ==
    [success |-> success, status |-> status, repairs_made |-> repairs]

\* "Unknown document i", repaired: True for the missing ids i
Placeholder(i) == [text |-> 0 - (i + 1), file_name |-> "", repaired |-> TRUE]

\* a list shorter than the index is padded, a longer one is cut
PadMetadata(m, n) ==
    IF Len(m.items) < n
    THEN ListMeta(m.items \o [i \in 1..(n - Len(m.items)) |->
                                 Placeholder(Len(m.items) + i - 1)])
    ELSE ListMeta(SubSeq(m.items, 1, n))

repair_knowledge_base(s) ==
    LET dg == diagnose_knowledge_base(s)
        a == _load_index(dg.s)
        b == _load_metadata(a.s)
        c == _load_file_registry(b.s)
        index == PyBool(a.ret)
        meta == PyBool(b.ret)
        registry == PyBool(c.ret)
        \* if index is not None and index.ntotal > 0: raises for a bool, and
        \* the outer except reports the failure
        raised == ~HasNtotal(index)
        n == Len(c.s.idx.vecs)
        fix == n > 0 /\ meta.type = "list" /\ Len(c.s.meta.items) # n
        s1 == IF fix THEN _save_metadata([c.s EXCEPT !.meta = PadMetadata(@, n)]).s ELSE c.s
        s2 == IF HasLen(registry) /\ s1.reg.entries = <<>>
              THEN _save_file_registry([s1 EXCEPT !.reg = Registry(<<>>)]).s
              ELSE s1
        after == diagnose_knowledge_base(s2)
    IN  IF dg.ret.status = "ok" /\ dg.ret.is_consistent
        THEN R(dg.s, RepairRet(TRUE, "success", {}))
        ELSE IF raised THEN R(c.s, RepairRet(FALSE, "error", {}))
        ELSE R(after.s, RepairRet(after.ret.is_consistent,
                                  IF after.ret.is_consistent THEN "success" ELSE "error",
                                  IF fix THEN {"metadata"} ELSE {}))

(* ------------------------------- search -------------------------------- *)
\* float64 exp(-x) is 0.0 from x = 745.1333 on, here in units of 1e-4
ExpUnderflowE4 == 7451333

\* float(np.exp(-sim)) for a squared distance in units of 1e-4: the score is
\* exp(-exponent / 10000), or 0.0 once the exponential underflows
Similarity(dist) ==
    IF dist >= ExpUnderflowE4 THEN [zero |-> TRUE, exponent |-> 0]
    ELSE [zero |-> FALSE, exponent |-> dist]

NoHits == [ids |-> <<>>, scores |-> <<>>, metadata |-> <<>>]

\* the farthest stored vectors come first
RECURSIVE IndexSearchFarthest(_, _, _, _)
IndexSearchFarthest(vecs, q, k, taken) ==
    IF k = 0 THEN <<>>
    ELSE IF taken = DOMAIN vecs THEN <<0 - 1>> \o IndexSearchFarthest(vecs, q, k - 1, taken)
    ELSE LET rest == (DOMAIN vecs) \ taken
             best == CHOOSE i \in rest : \A j \in rest :
                         \/ DistE4(vecs[i], q) > DistE4(vecs[j], q)
                         \/ DistE4(vecs[i], q) = DistE4(vecs[j], q) /\ i <= j
         IN  <<best - 1>> \o IndexSearchFarthest(vecs, q, k - 1, taken \cup {best})

RECURSIVE IndexSearch(_, _, _, _)
\* IndexFlatL2.search(q, k): the ids of the k nearest stored vectors, nearest
\* first, equal distances in ascending id order, -1 where nothing is left
IndexSearch(vecs, q, k, taken) ==
    IF k = 0 THEN <<>>
    ELSE IF taken = DOMAIN vecs THEN <<0 - 1>> \o IndexSearch(vecs, q, k - 1, taken)
    ELSE LET rest == (DOMAIN vecs) \ taken
             best == CHOOSE i \in rest : \A j \in rest :
                         \/ DistE4(vecs[i], q) < DistE4(vecs[j], q)
                         \/ DistE4(vecs[i], q) = DistE4(vecs[j], q) /\ i <= j
         IN  <<best - 1>> \o IndexSearch(vecs, q, k - 1, taken \cup {best})

check_and_fix_collection_consistency(s) ==
    LET a == IF s.idx.present THEN R(s, TRUE) ELSE _load_index(s)
        b == IF a.s.meta.present THEN R(a.s, TRUE) ELSE _load_metadata(a.s)
        n == Len(b.s.idx.vecs)
        m == MetaLen(b.s.meta)
    IN  IF ~a.ret THEN R(a.s, FALSE)
        ELSE IF ~b.ret THEN R(b.s, FALSE)
        ELSE IF n = 0 /\ m > 0 THEN R(b.s, FALSE)
        ELSE R(b.s, n = m)

\* metadata.get(str(idx)) or metadata.get(idx, {}) for a dict, metadata[idx]
\* for a list that is long enough, else {}
SearchMeta(m, idx) ==
    IF m.kind = "dict"
    THEN IF idx \in DOMAIN m.smap /\ m.smap[idx] # EmptyEntry THEN m.smap[idx]
         ELSE IF idx \in DOMAIN m.imap THEN m.imap[idx]
         ELSE EmptyEntry
    ELSE IF 0 <= idx /\ idx < Len(m.items) THEN m.items[idx + 1]
    ELSE EmptyEntry

Min2(a, b) == IF a <= b THEN a ELSE b

\* a query of any length is searched for
QueryAlwaysFits(expected_dim, actual_dim) == FALSE

\* expected_dim != actual_dim
QueryMisfits(expected_dim, actual_dim) == expected_dim # actual_dim

\* the query has dimension d and lies at grid point q
search(s, d, q, top_k) ==
    LET a == IF s.idx.present THEN s ELSE _load_index(s).s
        b == IF a.meta.present THEN a ELSE _load_metadata(a).s
        c == check_and_fix_collection_consistency(b).s
        hits == IndexSearch(c.idx.vecs, q, Min2(top_k, Len(c.idx.vecs)), {})
        valid == SelectSeq(hits, LAMBDA idx : idx # 0 - 1)
    IN  IF ~b.idx.present \/ ~b.meta.present THEN R(b, NoHits)
        ELSE IF Len(c.idx.vecs) = 0 THEN R(c, NoHits)
        ELSE IF QueryMisfits(c.idx.d, d) THEN R(c, NoHits)
        ELSE IF valid = <<>> THEN R(c, NoHits)
        ELSE R(c, [ids |-> valid,
                   scores |-> [i \in DOMAIN valid |->
                                  Similarity(DistE4(c.idx.vecs[valid[i] + 1], q))],
                   metadata |-> [i \in DOMAIN valid |-> SearchMeta(c.meta, valid[i])]])

(* ------------------------ list_files, get_file_info -------------------- *)
ChunksCount(e) ==
    LET hit == {j \in DOMAIN e.versions : e.versions[j].version = e.current_version}
    IN  IF e.versions = <<>> THEN 0
        ELSE IF hit # {} THEN e.versions[SetMin(hit)].vector_count
        ELSE e.versions[Len(e.versions)].vector_count

FileData(e) == [file_name |-> e.key, file_path |-> e.file_path, chunks_count |-> ChunksCount(e)]

RECURSIVE FilesInfo(_)
FilesInfo(es) ==
    IF es = <<>> THEN <<>>
    ELSE IF IsUnderscore(Head(es).key) \/ ~Head(es).is_file THEN FilesInfo(Tail(es))
    ELSE <<FileData(Head(es))>> \o FilesInfo(Tail(es))

list_files(s) ==
    LET t == IF s.reg.present THEN s ELSE _load_file_registry(s).s
    IN  IF ~collection_exists(s) THEN R(s, <<>>)
        ELSE R(t, FilesInfo(t.reg.entries))

\* the dict get_file_info returns: {'error': ...} or the File Record
FileInfoRet(err, e) == [error |-> err, record |-> e]

get_file_info(s, fname) ==
    LET t == IF s.reg.present THEN s ELSE _load_file_registry(s).s
    IN  IF ~collection_exists(s) THEN R(s, FileInfoRet(TRUE, ScalarEntry("", 0)))
        ELSE IF ~HasKey(t.reg.entries, fname) THEN R(t, FileInfoRet(TRUE, ScalarEntry("", 0)))
        ELSE R(t, FileInfoRet(FALSE, t.reg.entries[KeyPos(t.reg.entries, fname)]))

(* --------------------------- delete_collection ------------------------- *)
\* the files and the cache entries go; collections_info.json is not touched
delete_collection(s) ==
    IF ~collection_exists(s) THEN R(s, FALSE)
    ELSE R([s EXCEPT !.idx = NoIndex, !.meta = NoMeta, !.reg = NoRegistry,
                     !.hist = NoHistory, !.f_idx = NoIndex, !.f_meta = NoMeta,
                     !.f_reg = NoRegistry, !.f_hist = NoHistory], TRUE)

(* ------------------------------ the machine ---------------------------- *)
(* ------------------- list_collections, verify_indexes ------------------ *)
\* names a collection can have: one of letters only, one with a space
Names == {"kb", "k b"}

\* urllib.parse.quote(name, safe=''): letters stay, a space becomes the
\* escape of 20 and a percent sign the escape of 25; the percent sign that
\* starts an escape is written ^ here
Quote(name) ==
    CASE name = "kb" -> "kb"
      [] name = "k b" -> "k^20b"
      [] name = "k^20b" -> "k^2520b"
      [] OTHER -> name

\* the names of the .index files of the index folder, without the suffix,
\* when the collection of the store is called name
list_collections(s, name) ==
    IF s.f_idx.present THEN <<Quote(name)>> ELSE <<>>

VerifyRet(status, checked, results) ==
    [status |-> status, checked_collections |-> checked, results |-> results]

\* the end of one collection's check: the vector counts of the File Records
\* are summed and compared with the index size, and the report is stored
VerifyCounted(s, c, index_size, mismatch, warned) ==
    LET total_vectors == FileVectorSum(s.reg.entries)
    IN  R(s, {[name |-> c,
               status |-> IF mismatch THEN "error"
                          ELSE IF warned \/ total_vectors # index_size THEN "warning"
                          ELSE "ok"]})

\* the sizes of the loaded index and Metadata Table are compared, and a
\* mismatch is repaired when asked for
VerifySized(s, c, repair, warned) ==
    LET index_size == Len(s.idx.vecs)
        mismatch == index_size # MetaLen(s.meta)
    IN  VerifyCounted(IF mismatch /\ repair THEN repair_knowledge_base(s).s ELSE s,
                      c, index_size, mismatch, warned)

\* the report of one listed collection c, or no report where the loop goes on
\* to the next collection without storing one: results[c] is a one-element
\* set, or empty
VerifyOne(s, name, c, repair) ==
    LET here == Quote(c) = Quote(name)
        a == _load_index(s)
        b == _load_metadata(a.s)
        l == _load_file_registry(b.s)
    IN  IF ~(here /\ s.f_idx.present) THEN R(s, {})
        ELSE IF ~s.f_meta.present THEN R(s, {})
        ELSE IF ~a.ret THEN R(a.s, {[name |-> c, status |-> "error"]})
        ELSE IF ~b.ret THEN R(b.s, {[name |-> c, status |-> "error"]})
        ELSE VerifySized(l.s, c, repair, ~s.f_reg.present \/ ~l.ret)

verify_indexes(s, name, repair) ==
    LET collections == list_collections(s, name)
        one == VerifyOne(s, name, collections[1], repair)
    IN  IF collections = <<>> THEN R(s, VerifyRet("empty", 0, {}))
        ELSE R(one.s, VerifyRet("completed", Len(collections), one.ret))

Bounded(s) ==
    /\ Len(s.idx.vecs) <= MaxVecs
    /\ Len(s.f_idx.vecs) <= MaxVecs
    /\ Len(s.hist.events) <= MaxHist
    /\ Len(s.f_hist.events) <= MaxHist
    /\ \A i \in DOMAIN s.reg.entries : Len(s.reg.entries[i].versions) <= MaxVersions

NoArgs ==
    [d |-> 0, vecs |-> <<>>, path |-> NoPath, file |-> "", ids |-> {}, version |-> 0,
     top_k |-> 0, fault |-> "none", fails |-> {}, left |-> FALSE]

\* the threads that call add_vectors at the same time, and what one call holds
\* in its local variables: its arguments, accepted_vectors, duplicates_count,
\* before_count, after_count, added_count, its position and, at the end, its
\* result; turn is the number of calls begun before it and pre the store it
\* began in
Callers == {"A", "B"}

IdleCall(s) ==
    [pc |-> "idle", d |-> 0, vecs |-> <<>>, path |-> NoPath, acc |-> <<>>, dups |-> 0,
     before |-> 0, after |-> 0, added |-> 0, turn |-> 0, ret |-> AddErr, pre |-> s]

\* the call returns: the store it leaves and the record of the call
Commit(r, op, args) ==
    /\ indexes' = r.s.idx
    /\ metadata' = r.s.meta
    /\ file_registry' = r.s.reg
    /\ file_change_history' = r.s.hist
    /\ disk_index' = r.s.f_idx
    /\ disk_meta' = r.s.f_meta
    /\ disk_registry' = r.s.f_reg
    /\ disk_history' = r.s.f_hist
    /\ collections_info' = r.s.info
    /\ last' = [op |-> op, args |-> args, ret |-> r.ret, pre |-> Store]
    /\ calls' = calls

Apply(r, op, args) == Bounded(r.s) /\ Commit(r, op, args)

Init ==
    /\ indexes = NoIndex
    /\ metadata = NoMeta
    /\ file_registry = NoRegistry
    /\ file_change_history = NoHistory
    /\ disk_index = NoIndex
    /\ disk_meta = NoMeta
    /\ disk_registry = NoRegistry
    /\ disk_history = NoHistory
    /\ collections_info = NoInfo
    /\ last = [op |-> "init", args |-> NoArgs, ret |-> TRUE, pre |-> Store]
    /\ calls = [c \in Callers |-> IdleCall(Store)]

\* the batches callers pass: every batch of dimension 4, one of dimension 512
Batches ==
    {[d |-> 4, vecs |-> q] : q \in VecSeqs} \cup {[d |-> DefaultDim, vecs |-> <<0>>]}

CreateCollection ==
    Apply(create_collection(Store, 4), "createCollection", [NoArgs EXCEPT !.d = 4])

CreateCollectionUnder ==
    \E fault \in CreateFaults, left \in BOOLEAN :
        Apply(create_collection_under(Store, 4, fault, left), "createCollection",
              [NoArgs EXCEPT !.d = 4, !.fault = fault, !.left = left])

AddVectorsTo(path) ==
    \E b \in Batches :
        Apply(add_vectors(Store, b.d, Items(b.vecs), path), "addVectors",
              [NoArgs EXCEPT !.d = b.d, !.vecs = b.vecs, !.path = path])

AddVectors == \E path \in Paths : AddVectorsTo(path)

\* one file is enough where the files do not matter
OnePath == [dir |-> "docs", base |-> "a.txt"]

\* the batches of one vector of the collection's dimension
FaultBatches == {b \in Batches : b.d = 4 /\ Len(b.vecs) = 1}

\* an insert of one vector during which some of the three saves fail
AddVectorsUnder ==
    \E b \in FaultBatches, fails \in (SUBSET SaveFaults) \ {{}}, left \in BOOLEAN :
        Apply(add_vectors_under(Store, b.d, Items(b.vecs), OnePath, fails, left),
              "addVectors",
              [NoArgs EXCEPT !.d = b.d, !.vecs = b.vecs, !.path = OnePath,
                             !.fails = fails, !.left = left])

DeleteVectors ==
    \E ids \in (SUBSET (0..(MaxVecs - 1))) \ {{}} :
        Apply(delete_vectors(Store, ids), "deleteVectors", [NoArgs EXCEPT !.ids = ids])

DeleteFile ==
    \E f \in Files :
        Apply(delete_file(Store, f), "deleteFile", [NoArgs EXCEPT !.file = f])

ReplaceFileAt(path) ==
    \E b \in Batches :
        Apply(replace_file(Store, b.d, Items(b.vecs), path), "replaceFile",
              [NoArgs EXCEPT !.d = b.d, !.vecs = b.vecs, !.path = path])

ReplaceFile == \E path \in Paths : ReplaceFileAt(path)

RestoreFileVersion ==
    \E f \in Files, v \in 1..(MaxVersions + 1) :
        Apply(restore_file_version(Store, f, v), "restoreFileVersion",
              [NoArgs EXCEPT !.file = f, !.version = v])

\* the process ends and a new one starts: the caches are empty, the files stay
Restart ==
    /\ indexes.present \/ metadata.present \/ file_registry.present
         \/ file_change_history.present
    /\ Apply(R([Store EXCEPT !.idx = NoIndex, !.meta = NoMeta, !.reg = NoRegistry,
                             !.hist = NoHistory], TRUE),
             "restart", NoArgs)

LoadCollection ==
    Apply(load_collection(Store), "loadCollection", NoArgs)

Diagnose ==
    Apply(diagnose_knowledge_base(Store), "diagnose", NoArgs)

Repair ==
    Apply(repair_knowledge_base(Store), "repair", NoArgs)

DeleteCollection ==
    Apply(delete_collection(Store), "deleteCollection", NoArgs)

\* queries of the collection's dimension and of a wrong one, on the grid and far
\* from it
QueryDims == {3, 4}
Queries == Vals \cup {FarQuery}

Search ==
    \E d \in QueryDims, q \in Queries, k \in 1..MaxTopK :
        Apply(search(Store, d, q, k), "search",
              [NoArgs EXCEPT !.d = d, !.vecs = <<q>>, !.top_k = k])

\* one query is enough where the hits do not matter
OneQuery ==
    Apply(search(Store, 4, 0, 1), "search",
          [NoArgs EXCEPT !.d = 4, !.vecs = <<0>>, !.top_k = 1])

ListFiles ==
    Apply(list_files(Store), "listFiles", NoArgs)

GetFileInfo ==
    \E f \in Files :
        Apply(get_file_info(Store, f), "getFileInfo", [NoArgs EXCEPT !.file = f])

\* the metadata artifact is cut short from outside the program
TruncateMetadata ==
    /\ disk_meta.present /\ disk_meta.kind = "list"
    /\ \E n \in 0..(Len(disk_meta.items) - 1) :
           Apply(R([Store EXCEPT !.f_meta = ListMeta(SubSeq(disk_meta.items, 1, n))], TRUE),
                 "truncateMetadata", NoArgs)

(* ------------------- add_vectors, statement by statement --------------- *)
\* a step of a call: the store it leaves, the call's locals, and last, which
\* changes when the call returns
Step(s, c, k) ==
    /\ indexes' = s.idx
    /\ metadata' = s.meta
    /\ file_registry' = s.reg
    /\ file_change_history' = s.hist
    /\ disk_index' = s.f_idx
    /\ disk_meta' = s.f_meta
    /\ disk_registry' = s.f_reg
    /\ disk_history' = s.f_hist
    /\ collections_info' = s.info
    /\ calls' = [calls EXCEPT ![c] = k]
    /\ last' = IF k.pc = "done"
               THEN [op |-> "addVectors",
                     args |-> [NoArgs EXCEPT !.d = k.d, !.vecs = k.vecs, !.path = k.path],
                     ret |-> k.ret, pre |-> k.pre]
               ELSE last

\* the call has an accepted batch to append: the collection exists or was
\* created, its caches are loaded, the dimension fits and not every vector is
\* a duplicate
Accepts(s, d, items) ==
    LET e == IF collection_exists(s) THEN R(s, TRUE) ELSE _ensure_collection_exists(s)
        l == LoadForAdd(e.s)
    IN  /\ e.ret /\ l.ret /\ d = l.s.idx.d
        /\ Len(l.s.idx.vecs) > 0 =>
               \E i \in DOMAIN items : ~IsDuplicate(l.s.idx.vecs, items[i].vec)

\* the call up to the end of the duplicate screening; a call that accepts
\* nothing returns at once
AddBegin(c) ==
    /\ calls[c].pc = "idle"
    /\ \E b \in FaultBatches, path \in Paths :
           LET items == Items(b.vecs)
               begun == Cardinality({x \in Callers : calls[x].pc # "idle"})
               k == [calls[c] EXCEPT !.d = b.d, !.vecs = b.vecs, !.path = path,
                                     !.turn = begun, !.pre = Store]
               t == LoadForAdd(Store).s
               acc == IF Len(t.idx.vecs) = 0 THEN vectors_to_add(items)
                      ELSE SelectSeq(items, LAMBDA it : ~IsDuplicate(t.idx.vecs, it.vec))
               whole == add_vectors(Store, b.d, items, path)
           IN  IF Accepts(Store, b.d, items)
               THEN Step(t, c, [k EXCEPT !.pc = "screened", !.acc = acc,
                                         !.dups = IF Len(t.idx.vecs) = 0 THEN NoValue
                                                  ELSE Len(items) - Len(acc)])
               ELSE Step(whole.s, c, [k EXCEPT !.pc = "done", !.ret = whole.ret])

\* before_count = index.ntotal
AddCount(c) ==
    /\ calls[c].pc = "screened"
    /\ Step(Store, c, [calls[c] EXCEPT !.pc = "counted", !.before = Len(indexes.vecs)])

\* index.add(vectors_to_add)
AddToIndex(c) ==
    LET k == calls[c]
    IN  /\ k.pc = "counted"
        /\ Len(indexes.vecs) + Len(k.acc) <= MaxVecs
        /\ Step([Store EXCEPT !.idx.vecs = @ \o [i \in 1..Len(k.acc) |-> k.acc[i].vec]],
                c, [k EXCEPT !.pc = "added"])

\* every vector the call counts as added is one it supplied
AddedCountSupplied(after_count, before_count, acc) == Len(acc)

\* added_count = after_count - before_count
AddedCount(after_count, before_count, acc) == after_count - before_count

\* after_count = index.ntotal, added_count, and the metadata entries stored
AddMeasure(c) ==
    LET k == calls[c]
    IN  /\ k.pc = "added"
        /\ Step([Store EXCEPT !.meta = ExtendMeta(@, k.before,
                                                  [i \in 1..Len(k.acc) |-> k.acc[i].meta])],
                c, [k EXCEPT !.pc = "measured", !.after = Len(indexes.vecs),
                             !.added = AddedCount(Len(indexes.vecs), k.before, k.acc)])

\* the File Record is created or gains a version, and the file event is logged
AddRecord(c) ==
    LET k == calls[c]
        fname == basename(k.path)
        es1 == UpdateFileRecord(file_registry.entries, fname, k.path, k.before, k.added)
    IN  /\ k.pc = "measured"
        /\ Step(RecordEvent([Store EXCEPT !.reg = Registry(es1)],
                            IF HasKey(file_registry.entries, fname) THEN "file_updated"
                            ELSE "file_added",
                            fname),
                c, [k EXCEPT !.pc = "recorded"])

\* the entries get their file name, the registry its statistics, the three
\* artifacts are saved and the call returns
AddFinish(c) ==
    LET k == calls[c]
        fname == basename(k.path)
        es2 == SetScalar(SetScalar(SetScalar(file_registry.entries, "_last_updated", 0),
                                   "_file_count", NonUnderscoreKeys(file_registry.entries)),
                         "_vector_count", Len(indexes.vecs))
        s2 == [Store EXCEPT !.meta = AnnotateMeta(@, k.before, Len(k.acc), fname),
                            !.reg = Registry(es2)]
        saved == SaveAll(s2, {}, FALSE)
    IN  /\ k.pc = "recorded"
        /\ Step(RecordEvent(saved.s, "vectors_added", ""),
                c, [k EXCEPT !.pc = "done",
                             !.ret = AddRet("success", k.added, k.dups, fname)])


(* ------------------- long version histories of one file ---------------- *)
\* vectors far enough from each other that none is a duplicate of another
VersionVals == {0, 2, 4}

BoundedLong(s) ==
    /\ Len(s.idx.vecs) <= MaxVecs
    /\ Len(s.hist.events) <= MaxHistLong
    /\ \A i \in DOMAIN s.reg.entries : Len(s.reg.entries[i].versions) <= MaxVersionsLong

AddVersion ==
    \E v \in VersionVals :
        LET r == add_vectors(Store, 4, Items(<<v>>), OnePath)
        IN  /\ BoundedLong(r.s)
            /\ Commit(r, "addVectors", [NoArgs EXCEPT !.d = 4, !.vecs = <<v>>, !.path = OnePath])

RestoreAnyVersion ==
    \E v \in 1..MaxVersionsLong :
        LET r == restore_file_version(Store, basename(OnePath), v)
        IN  /\ BoundedLong(r.s)
            /\ Commit(r, "restoreFileVersion",
                      [NoArgs EXCEPT !.file = basename(OnePath), !.version = v])

\* verifyAll of a store whose collection is called name
VerifyAll ==
    \E name \in Names, repair \in BOOLEAN :
        Apply(verify_indexes(Store, name, repair), "verifyAll",
              [NoArgs EXCEPT !.file = name, !.left = repair])

Next ==
    \/ CreateCollection
    \/ AddVectors
    \/ DeleteVectors
    \/ DeleteFile
    \/ ReplaceFile
    \/ RestoreFileVersion

Spec == Init /\ [][Next]_vars

\* the checker operations on a collection whose metadata artifact is damaged
NextDrift ==
    \/ CreateCollection
    \/ AddVectors
    \/ TruncateMetadata
    \/ Diagnose
    \/ Repair

SpecDrift == Init /\ [][NextDrift]_vars

\* inserts, restarts and reloads
NextPersist ==
    \/ CreateCollection
    \/ AddVectorsTo(OnePath)
    \/ Restart
    \/ LoadCollection

SpecPersist == Init /\ [][NextPersist]_vars

\* every operation on one collection that may exist or not
NextOps ==
    \/ CreateCollection
    \/ AddVectorsTo(OnePath)
    \/ DeleteCollection
    \/ OneQuery
    \/ ListFiles
    \/ GetFileInfo
    \/ DeleteVectors
    \/ DeleteFile
    \/ ReplaceFileAt(OnePath)
    \/ RestoreFileVersion
    \/ Diagnose
    \/ Repair

SpecOps == Init /\ [][NextOps]_vars

\* inserts and queries
NextSearch ==
    \/ CreateCollection
    \/ AddVectorsTo(OnePath)
    \/ Search

SpecSearch == Init /\ [][NextSearch]_vars

\* creations whose writes can fail
NextFault ==
    \/ CreateCollection
    \/ CreateCollectionUnder
    \/ AddVectorsTo(OnePath)

SpecFault == Init /\ [][NextFault]_vars

\* inserts whose saves can fail
NextSaveFault ==
    \/ CreateCollection
    \/ AddVectorsTo(OnePath)
    \/ AddVectorsUnder

SpecSaveFault == Init /\ [][NextSaveFault]_vars

\* queries and diagnoses of a collection whose saves can fail
NextAhead ==
    \/ CreateCollection
    \/ AddVectorsUnder
    \/ OneQuery
    \/ Diagnose

SpecAhead == Init /\ [][NextAhead]_vars

\* two threads insert into one collection with no lock between them
NextRace ==
    \/ (\A c \in Callers : calls[c].pc = "idle") /\ CreateCollection
    \/ \E c \in Callers : AddBegin(c)
    \/ \E c \in Callers : AddCount(c)
    \/ \E c \in Callers : AddToIndex(c)
    \/ \E c \in Callers : AddMeasure(c)
    \/ \E c \in Callers : AddRecord(c)
    \/ \E c \in Callers : AddFinish(c)

SpecRace == Init /\ [][NextRace]_vars

\* verifyAll of a collection whose metadata artifact may be damaged
NextVerify ==
    \/ CreateCollection
    \/ AddVectorsTo(OnePath)
    \/ TruncateMetadata
    \/ VerifyAll

SpecVerify == Init /\ [][NextVerify]_vars

\* the operations that never rebuild the index
NextIds ==
    \/ CreateCollection
    \/ AddVectors
    \/ DeleteFile
    \/ RestoreFileVersion

SpecIds == Init /\ [][NextIds]_vars

\* inserts for one file and restores of its versions
NextVersions ==
    \/ CreateCollection
    \/ AddVersion
    \/ RestoreAnyVersion

SpecVersions == Init /\ [][NextVersions]_vars

(* ------------------------------ properties ----------------------------- *)
\* what an operation sees of the collection: the cache when it is filled, else
\* the artifact it would load
TheIndex(s) == IF s.idx.present THEN s.idx ELSE s.f_idx
TheMetadata(s) == IF s.meta.present THEN s.meta ELSE s.f_meta
TheRegistry(s) == IF s.reg.present THEN s.reg ELSE s.f_reg
TheHistory(s) == IF s.hist.present THEN s.hist ELSE s.f_hist

IndexSize(s) == Len(TheIndex(s).vecs)

\* the step just taken is a mutating operation that reported success
OpSucceeded ==
    CASE last.op \in {"createCollection", "deleteVectors", "deleteFile", "restoreFileVersion"} ->
             last.ret = TRUE
      [] last.op = "addVectors" -> last.ret.status = "success"
      [] last.op = "replaceFile" -> last.ret.ok /\ last.ret.add.status = "success"
      [] OTHER -> FALSE

\* C1: after every successful mutating operation (createCollection, addVectors,
\* deleteVectors, deleteFile, replaceFile, restoreFileVersion), in any order, the
\* Metadata Table has as many entries as the Vector Index has vectors, in the
\* caches and in the saved artifacts
C1_MetadataMatchesIndex ==
    OpSucceeded =>
        /\ MetaLen(TheMetadata(Store)) = IndexSize(Store)
        /\ MetaLen(disk_meta) = Len(disk_index.vecs)

\* a replaceFile that stored new vectors next to older ones has succeeded
C1_Witness ==
    /\ OpSucceeded /\ last.op = "replaceFile"
    /\ last.ret.add.count > 0
    /\ IndexSize(Store) > last.ret.add.count

\* every id a File Record of the registry lists is an id of the index
IdsInRange(reg, size) ==
    \A i \in DOMAIN reg.entries :
        reg.entries[i].is_file =>
            \A j \in DOMAIN reg.entries[i].versions :
                \A k \in DOMAIN reg.entries[i].versions[j].vector_ids :
                    /\ 0 <= reg.entries[i].versions[j].vector_ids[k]
                    /\ reg.entries[i].versions[j].vector_ids[k] < size

\* C2: after every successful mutating operation every id in vector_ids of any
\* Version of any File Record lies in [0, index.size)
C2_VectorIdsInRange ==
    OpSucceeded =>
        /\ IdsInRange(TheRegistry(Store), IndexSize(Store))
        /\ IdsInRange(disk_registry, Len(disk_index.vecs))

\* a second insert for a file has succeeded: its record lists two versions
\* whose ids reach the last id of the index
C2_Witness ==
    /\ OpSucceeded /\ last.op = "addVectors"
    /\ \E i \in DOMAIN file_registry.entries :
           /\ file_registry.entries[i].is_file
           /\ Len(file_registry.entries[i].versions) = 2
           /\ \E k \in DOMAIN file_registry.entries[i].versions[2].vector_ids :
                  file_registry.entries[i].versions[2].vector_ids[k] = IndexSize(Store) - 1

(* deleteVectors, replaceFile, deleteFile *)
\* the File Records of a registry, and the record of one file
FileRecords(reg) == {i \in DOMAIN reg.entries : reg.entries[i].is_file}
HasRecord(reg, f) == \E i \in FileRecords(reg) : reg.entries[i].key = f
RecordOf(reg, f) == reg.entries[CHOOSE i \in FileRecords(reg) : reg.entries[i].key = f]

\* the ids the versions of a File Record list
IdsOf(e) == UNION {Range(e.versions[j].vector_ids) : j \in DOMAIN e.versions}

\* the Metadata Entry of id i
MetaEntry(m, i) ==
    IF m.kind = "list" THEN (IF i + 1 \in DOMAIN m.items THEN [found |-> TRUE, e |-> m.items[i + 1]]
                             ELSE [found |-> FALSE, e |-> EmptyEntry])
    ELSE IF i \in DOMAIN m.smap THEN [found |-> TRUE, e |-> m.smap[i]]
    ELSE IF i \in DOMAIN m.imap THEN [found |-> TRUE, e |-> m.imap[i]]
    ELSE [found |-> FALSE, e |-> EmptyEntry]

\* deleteVectors was called with ids of a non-empty index
DeletedSome ==
    /\ last.op = "deleteVectors"
    /\ IndexSize(last.pre) > 0
    /\ last.args.ids \subseteq 0..(IndexSize(last.pre) - 1)

\* C3: deleteVectors with ids inside [0, index.size) of a non-empty collection
\* succeeds; the index and the Metadata Table shrink by the number of deleted
\* ids, every Version keeps only its retained ids with vector_count =
\* len(vector_ids), and no listed id is >= the new index size
C3_DeleteVectorsShrinks ==
    DeletedSome =>
        /\ last.ret = TRUE
        /\ IndexSize(Store) = IndexSize(last.pre) - Cardinality(last.args.ids)
        /\ MetaLen(TheMetadata(Store)) = IndexSize(Store)
        /\ IdsInRange(TheRegistry(Store), IndexSize(Store))
        /\ \A i \in FileRecords(TheRegistry(last.pre)) :
               LET old == TheRegistry(last.pre).entries[i]
               IN  /\ HasRecord(TheRegistry(Store), old.key)
                   /\ LET new == RecordOf(TheRegistry(Store), old.key)
                      IN  /\ Len(new.versions) = Len(old.versions)
                          /\ \A j \in DOMAIN old.versions :
                                 /\ Len(new.versions[j].vector_ids) =
                                    Len(FilterSeq(old.versions[j].vector_ids, last.args.ids))
                                 /\ new.versions[j].vector_count =
                                    Len(new.versions[j].vector_ids)

\* how many retained ids are below id r: the dense id r gets
NewId(r, ids) == Cardinality({x \in 0..(r - 1) : x \notin ids})

\* C4: deleteVectors keeps every retained vector and its Metadata Entry: what
\* had the k-th smallest retained id before the call is at id k after it
C4_DeleteVectorsKeepsRetained ==
    DeletedSome =>
        \A r \in (0..(IndexSize(last.pre) - 1)) \ last.args.ids :
            /\ NewId(r, last.args.ids) + 1 \in DOMAIN TheIndex(Store).vecs
            /\ TheIndex(Store).vecs[NewId(r, last.args.ids) + 1] = TheIndex(last.pre).vecs[r + 1]
            /\ MetaEntry(TheMetadata(Store), NewId(r, last.args.ids)) =
               MetaEntry(TheMetadata(last.pre), r)

\* C5: for a file with one version of at least one vector, stored by addVectors,
\* replaceFile with a non-empty batch of the collection's dimension, equal or
\* near-equal vectors included, leaves the File Record with exactly 2 versions,
\* current_version 2, and version 1 still listed
C5_ReplaceFileAddsVersion ==
    LET f == basename(last.args.path)
        old == RecordOf(TheRegistry(last.pre), f)
        new == RecordOf(TheRegistry(Store), f)
    IN  (/\ last.op = "replaceFile"
         /\ HasRecord(TheRegistry(last.pre), f)
         /\ Len(old.versions) = 1 /\ old.versions[1].version = 1
         /\ old.versions[1].vector_ids # <<>>
         /\ last.args.d = TheIndex(last.pre).d)
        => /\ HasRecord(TheRegistry(Store), f)
           /\ Len(new.versions) = 2
           /\ new.current_version = 2
           /\ \E j \in DOMAIN new.versions : new.versions[j].version = 1

\* C6: after a successful deleteFile of a file that has vectors in the index the
\* registry has no record of the file, the index and the Metadata Table have
\* lost the file's vectors, and a delete event of the file ends the Change Log
C6_DeleteFileRemovesVectors ==
    LET f == last.args.file
        n == Cardinality(IdsOf(RecordOf(TheRegistry(last.pre), f)))
        log == TheHistory(Store).events
    IN  (/\ last.op = "deleteFile" /\ last.ret = TRUE
         /\ HasRecord(TheRegistry(last.pre), f)
         /\ n > 0)
        => /\ ~HasRecord(TheRegistry(Store), f)
           /\ IndexSize(Store) = IndexSize(last.pre) - n
           /\ MetaLen(TheMetadata(Store)) = MetaLen(TheMetadata(last.pre)) - n
           /\ Len(log) = Len(TheHistory(last.pre).events) + 1
           /\ log[Len(log)] = Event("delete", f)

(* diagnose, repair *)
\* the saved Metadata Table is shorter than the saved index
MetadataTruncated(s) == s.f_meta.present /\ MetaLen(s.f_meta) < Len(s.f_idx.vecs)

HasPlaceholder(m) ==
    m.kind = "list" /\ \E i \in DOMAIN m.items : m.items[i].repaired

\* C7: with the Metadata Table truncated below the index size, diagnose reports
\* is_consistent = false with a size-mismatch issue; repair pads the table with
\* placeholder entries up to the index size and reports success; a diagnose of
\* the padded table reports is_consistent = true
C7_RepairPadsMetadata ==
    /\ (last.op = "diagnose" /\ MetadataTruncated(last.pre))
         => /\ ~last.ret.is_consistent
            /\ "size_mismatch" \in last.ret.issues
    /\ (last.op = "repair" /\ MetadataTruncated(last.pre))
         => /\ last.ret.success
            /\ MetaLen(TheMetadata(Store)) = IndexSize(Store)
            /\ MetaLen(disk_meta) = Len(disk_index.vecs)
            /\ \A i \in 1..MetaLen(last.pre.f_meta) :
                   disk_meta.items[i] = last.pre.f_meta.items[i]
            /\ \A i \in (MetaLen(last.pre.f_meta) + 1)..MetaLen(disk_meta) :
                   disk_meta.items[i].repaired
    /\ (last.op = "diagnose" /\ HasPlaceholder(last.pre.f_meta)
          /\ MetaLen(last.pre.f_meta) = Len(last.pre.f_idx.vecs))
         => last.ret.is_consistent

\* C8: for an existing collection diagnose returns is_consistent = true exactly
\* when the index and the Metadata Table it loaded have the same size
C8_DiagnoseReportsEquality ==
    (last.op = "diagnose" /\ collection_exists(last.pre))
        => (last.ret.is_consistent <=> (IndexSize(Store) = MetaLen(TheMetadata(Store))))

(* addVectors *)
\* the positions of a batch whose vector is within the dedup threshold of a
\* stored vector
NearStored(stored, batch) ==
    {i \in DOMAIN batch :
        \E j \in DOMAIN stored : DistE4(stored[j], batch[i]) < DedupThresholdE4}

\* the batch without the positions in drop, in order
RECURSIVE Without(_, _, _)
Without(batch, drop, i) ==
    IF i > Len(batch) THEN <<>>
    ELSE (IF i \in drop THEN <<>> ELSE <<batch[i]>>) \o Without(batch, drop, i + 1)

\* addVectors was called with vectors of the collection's dimension on a
\* non-empty index
AddedToNonEmpty ==
    /\ last.op = "addVectors"
    /\ IndexSize(last.pre) > 0
    /\ last.args.d = TheIndex(last.pre).d

\* C9: on a non-empty index every candidate within the dedup threshold of a
\* stored vector is counted as a duplicate and not appended, the others are
\* appended in order; when all are duplicates the call returns count 0 and
\* leaves the index, the Metadata Table and the File Registry unchanged
C9_DuplicatesAreSkipped ==
    AddedToNonEmpty =>
        LET dup == NearStored(TheIndex(last.pre).vecs, last.args.vecs)
        IN  /\ last.ret.status = "success"
            /\ last.ret.duplicates = Cardinality(dup)
            /\ last.ret.count = Len(last.args.vecs) - Cardinality(dup)
            /\ TheIndex(Store).vecs = TheIndex(last.pre).vecs \o Without(last.args.vecs, dup, 1)
            /\ MetaLen(TheMetadata(Store)) = MetaLen(TheMetadata(last.pre)) + last.ret.count
            /\ last.ret.count = 0 =>
                   /\ TheIndex(Store) = TheIndex(last.pre)
                   /\ TheMetadata(Store) = TheMetadata(last.pre)
                   /\ TheRegistry(Store) = TheRegistry(last.pre)
                   /\ disk_index = last.pre.f_idx
                   /\ disk_meta = last.pre.f_meta
                   /\ disk_registry = last.pre.f_reg

\* a vector that is already stored was inserted again on its own
C9_Witness ==
    /\ AddedToNonEmpty
    /\ Len(last.args.vecs) = 1
    /\ last.args.vecs[1] \in Range(TheIndex(last.pre).vecs)
    /\ last.ret.count = 0 /\ last.ret.duplicates = 1

\* what C10 promises of an insert into an empty index
WholeBatchStored ==
    LET f == basename(last.args.path)
        n == Len(last.args.vecs)
    IN  /\ last.ret.status = "success"
        /\ last.ret.count = n
        /\ TheIndex(Store).vecs = last.args.vecs
        /\ MetaLen(TheMetadata(Store)) = n
        /\ HasRecord(TheRegistry(Store), f)
        /\ \E j \in DOMAIN RecordOf(TheRegistry(Store), f).versions :
               /\ RecordOf(TheRegistry(Store), f).versions[j].version = 1
               /\ RecordOf(TheRegistry(Store), f).versions[j].vector_ids = [k \in 1..n |-> k - 1]

AddedToEmpty ==
    /\ last.op = "addVectors"
    /\ collection_exists(last.pre)
    /\ IndexSize(last.pre) = 0

\* C10: addVectors into a collection whose index is empty accepts every
\* supplied vector without dedup screening, vectors that duplicate each other
\* in the batch included; the index and the Metadata Table have the batch size
\* and the file's Version 1 lists ids 0..batch size-1. The batch has the
\* collection's dimension: one of another dimension is an invalid insert, which
\* index.add rejects
C10_EmptyIndexAcceptsAll ==
    (AddedToEmpty /\ last.args.d = TheIndex(last.pre).d) => WholeBatchStored

\* a batch of two equal vectors was inserted into an empty index
C10_Witness ==
    /\ AddedToEmpty /\ last.args.d = TheIndex(last.pre).d
    /\ Len(last.args.vecs) = 2 /\ last.args.vecs[1] = last.args.vecs[2]
    /\ IndexSize(Store) = 2

(* persistence *)
\* the text of the Metadata Entry of id i
TextAt(m, i) == MetaEntry(m, i).e.text

\* the artifacts are the ones of the state before the step
DiskUnchanged ==
    /\ disk_index = last.pre.f_idx /\ disk_meta = last.pre.f_meta
    /\ disk_registry = last.pre.f_reg /\ disk_history = last.pre.f_hist

\* C11: round trip through disk. A successful addVectors leaves on disk the
\* index extended by the accepted vectors and the Metadata Table extended by
\* their entries, texts as supplied and in order; a restart keeps the
\* artifacts; a reload into empty caches yields an index and a Metadata Table
\* of the saved sizes with the saved texts. So after createCollection, an
\* insert of N vectors and a reload, index.size = N, the table has N entries
\* and entry i has the text of the i-th inserted entry
C11_RoundTrip ==
    /\ (last.op = "addVectors" /\ last.ret.status = "success") =>
           LET old == TheIndex(last.pre).vecs
               dup == IF old = <<>> THEN {} ELSE NearStored(old, last.args.vecs)
               acc == Without(last.args.vecs, dup, 1)
               texts == Without([i \in DOMAIN last.args.vecs |->
                                    TextOf(last.args.vecs[i], i)], dup, 1)
           IN  /\ disk_index.vecs = old \o acc
               /\ MetaLen(disk_meta) = Len(old) + Len(acc)
               /\ \A i \in 1..Len(old) :
                      TextAt(disk_meta, i - 1) = TextAt(TheMetadata(last.pre), i - 1)
               /\ \A i \in 1..Len(acc) :
                      /\ MetaEntry(disk_meta, Len(old) + i - 1).found
                      /\ TextAt(disk_meta, Len(old) + i - 1) = texts[i]
    /\ last.op = "restart" =>
           /\ DiskUnchanged
           /\ ~indexes.present /\ ~metadata.present
    /\ (last.op = "loadCollection" /\ last.ret = TRUE) =>
           /\ disk_index = last.pre.f_idx
           /\ indexes = disk_index
           /\ last.pre.f_meta.present =>
                  /\ disk_meta = last.pre.f_meta
                  /\ MetaLen(metadata) = MetaLen(disk_meta)
                  /\ \A i \in 1..MetaLen(disk_meta) :
                         /\ MetaEntry(metadata, i - 1).found
                         /\ TextAt(metadata, i - 1) = TextAt(disk_meta, i - 1)

\* a collection was created, one batch of MaxBatch vectors was inserted, the
\* caches were emptied and the collection was loaded again: the sizes and the
\* texts are the inserted ones
C11_Witness ==
    /\ last.op = "loadCollection" /\ last.ret = TRUE
    /\ ~last.pre.idx.present /\ ~last.pre.meta.present
    /\ Len(disk_history.events) = 2
    /\ Len(indexes.vecs) = MaxBatch
    /\ MetaLen(metadata) = MaxBatch
    /\ \A i \in 1..MaxBatch : TextAt(metadata, i - 1) = TextOf(indexes.vecs[i], i)

(* restoreFileVersion *)
\* the File Records of a registry, in order, without its scalar items
FileRecordSeq(reg) == SelectSeq(reg.entries, LAMBDA e : e.is_file)

HasVersion(e, v) == \E j \in DOMAIN e.versions : e.versions[j].version = v

\* restoreFileVersion can succeed: the collection, the file and the version exist
Restorable(s, f, v) ==
    /\ collection_exists(s)
    /\ HasRecord(TheRegistry(s), f)
    /\ HasVersion(RecordOf(TheRegistry(s), f), v)

\* C12: restoreFileVersion(f, v) succeeds exactly when v is in the versions list
\* of f's File Record; then current_version of that record is v and the index,
\* the Metadata Table, the versions lists and every other File Record are as
\* before; otherwise it fails and index, Metadata Table, File Registry, Change
\* Log and the artifacts are as before
C12_RestoreOnlyMovesPointer ==
    last.op = "restoreFileVersion" =>
        LET f == last.args.file
            v == last.args.version
            ok == Restorable(last.pre, f, v)
            old == FileRecordSeq(TheRegistry(last.pre))
            new == FileRecordSeq(TheRegistry(Store))
        IN  /\ last.ret = ok
            /\ TheIndex(Store) = TheIndex(last.pre)
            /\ TheMetadata(Store) = TheMetadata(last.pre)
            /\ TheHistory(Store).events = TheHistory(last.pre).events
            /\ disk_index = last.pre.f_idx /\ disk_meta = last.pre.f_meta
            /\ disk_history = last.pre.f_hist
            /\ ok => /\ Len(new) = Len(old)
                     /\ \A i \in DOMAIN old :
                            new[i] = IF old[i].key = f
                                     THEN [old[i] EXCEPT !.current_version = v]
                                     ELSE old[i]
                     /\ HasRecord(disk_registry, f)
                     /\ RecordOf(disk_registry, f).current_version = v
            /\ ~ok => /\ TheRegistry(Store).entries = TheRegistry(last.pre).entries
                      /\ disk_registry = last.pre.f_reg

\* an older version of a file with two versions was restored
C12_Witness ==
    /\ last.op = "restoreFileVersion" /\ last.ret = TRUE
    /\ Len(RecordOf(TheRegistry(last.pre), last.args.file).versions) = 2
    /\ RecordOf(TheRegistry(last.pre), last.args.file).current_version = 2
    /\ last.args.version = 1
    /\ RecordOf(TheRegistry(Store), last.args.file).current_version = 1

\* current_version of every File Record names one of its versions
PointersValid(reg) ==
    \A i \in FileRecords(reg) : HasVersion(reg.entries[i], reg.entries[i].current_version)

\* C13: in every reachable state current_version of every File Record, cached
\* or saved, is the version number of an entry of its versions list
C13_CurrentVersionExists ==
    PointersValid(file_registry) /\ PointersValid(disk_registry)

\* a request for a version the file does not have was refused, and the file
\* has two versions, the first of them current
C13_Witness ==
    /\ last.op = "restoreFileVersion" /\ last.ret = FALSE
    /\ HasRecord(file_registry, last.args.file)
    /\ ~HasVersion(RecordOf(file_registry, last.args.file), last.args.version)
    /\ Len(RecordOf(file_registry, last.args.file).versions) = 2
    /\ RecordOf(file_registry, last.args.file).current_version = 1

\* the operations that do not create a collection
NonCreatingOps ==
    {"search", "deleteVectors", "deleteFile", "replaceFile", "restoreFileVersion",
     "listFiles", "getFileInfo", "diagnose", "repair"}

\* the step just taken reported failure or not-found
OpFailed ==
    CASE last.op \in {"deleteVectors", "deleteFile", "restoreFileVersion"} -> last.ret = FALSE
      [] last.op = "search" -> last.ret = NoHits
      [] last.op = "listFiles" -> last.ret = <<>>
      [] last.op = "getFileInfo" -> last.ret.error
      [] last.op = "replaceFile" -> ~last.ret.ok
      [] last.op = "diagnose" -> ~last.ret.collection_exists /\ last.ret.status = "error"
      [] last.op = "repair" -> ~last.ret.success
      [] OTHER -> FALSE

\* C14: search, deleteVectors, deleteFile, replaceFile, restoreFileVersion,
\* listFiles, getFileInfo, diagnose and repair on a collection that does not
\* exist report failure, create none of the four artifacts and no Collection
\* Info entry, and the collection still does not exist afterwards
C14_MissingCollectionUntouched ==
    (last.op \in NonCreatingOps /\ ~collection_exists(last.pre)) =>
        /\ OpFailed
        /\ disk_index = last.pre.f_idx /\ disk_meta = last.pre.f_meta
        /\ disk_registry = last.pre.f_reg /\ disk_history = last.pre.f_hist
        /\ collections_info = last.pre.info
        /\ ~collection_exists(Store)

\* C15: a deleteCollection of an existing collection succeeds, and then none of
\* the four artifacts exists, none of the four caches has an entry, the
\* Collection Info registry has no entry and the collection does not exist;
\* a deleteCollection of a collection that does not exist fails and changes
\* nothing
C15_DeleteCollectionRemovesAll ==
    last.op = "deleteCollection" =>
        IF collection_exists(last.pre)
        THEN /\ last.ret = TRUE
             /\ ~disk_index.present /\ ~disk_meta.present
             /\ ~disk_registry.present /\ ~disk_history.present
             /\ ~indexes.present /\ ~metadata.present
             /\ ~file_registry.present /\ ~file_change_history.present
             /\ ~collections_info.present
             /\ ~collection_exists(Store)
        ELSE last.ret = FALSE /\ Store = last.pre

\* C16: when createCollection of a collection that does not exist fails because
\* the metadata, registry, change log or Collection Info write fails, none of
\* the four artifacts exists on return, the collection does not exist, and a
\* later createCollection is not rejected
C16_FailedCreateLeavesNothing ==
    (/\ last.op = "createCollection" /\ last.args.fault \in CreateFaults
     /\ ~last.pre.f_idx.present) =>
        /\ last.ret = FALSE
        /\ ~disk_index.present /\ ~disk_meta.present
        /\ ~disk_registry.present /\ ~disk_history.present
        /\ ~collection_exists(Store)
        /\ create_collection(Store, 4).ret

\* C17: addVectors of N vectors of dimension d on a collection that does not
\* exist creates the collection and inserts them: it returns success with
\* count N, and afterwards the collection exists and its index holds N vectors
C17_AddCreatesCollection ==
    (last.op = "addVectors" /\ ~collection_exists(last.pre)) =>
        /\ last.ret.status = "success"
        /\ last.ret.count = Len(last.args.vecs)
        /\ collection_exists(Store)
        /\ IndexSize(Store) = Len(last.args.vecs)

\* what the same insert does when every save works
Unfailed ==
    add_vectors(last.pre, last.args.d, Items(last.args.vecs), last.args.path)

\* the step just taken is an insert that appended vectors in memory while some
\* of its saves failed
AppendedWhileFailing ==
    /\ last.op = "addVectors" /\ last.args.fails # {}
    /\ Unfailed.ret.status = "success" /\ Unfailed.ret.count > 0

\* C18: when addVectors has appended in memory and the save of the index, of
\* the metadata or of the registry fails, it returns an error; the cached
\* index, Metadata Table and File Registry hold the insert, exactly as after
\* the same insert without a failure; and each of the three saves that did not
\* fail has written its artifact
C18_FailedSaveKeepsInsert ==
    AppendedWhileFailing =>
        /\ last.ret.status = "error"
        /\ indexes = Unfailed.s.idx
        /\ metadata = Unfailed.s.meta
        /\ file_registry = Unfailed.s.reg
        /\ Len(indexes.vecs) = IndexSize(last.pre) + Unfailed.ret.count
        /\ MetaLen(metadata) = Len(indexes.vecs)
        /\ "index" \notin last.args.fails => disk_index = indexes
        /\ "metadata" \notin last.args.fails => disk_meta = JsonMeta(metadata)
        /\ "registry" \notin last.args.fails => disk_registry = file_registry

\* the index save failed during an insert into a collection that held a
\* vector: the cached index has both vectors and the metadata artifact has
\* both entries, while the index artifact is not the cached index
C18_Witness ==
    /\ AppendedWhileFailing
    /\ last.args.fails = {"index"}
    /\ IndexSize(last.pre) = 1
    /\ Len(indexes.vecs) = 2
    /\ MetaLen(disk_meta) = 2
    /\ disk_index # indexes
    /\ last.ret.status = "error"

\* the collection is the same after the step as before it: index, Metadata
\* Table, File Registry and Change Log as the operations see them, the four
\* artifacts and the Collection Info entry
CollectionUnchanged ==
    /\ TheIndex(Store) = TheIndex(last.pre)
    /\ TheMetadata(Store) = TheMetadata(last.pre)
    /\ TheRegistry(Store) = TheRegistry(last.pre)
    /\ TheHistory(Store) = TheHistory(last.pre)
    /\ DiskUnchanged
    /\ collections_info = last.pre.info

\* the step just taken is a search whose query has not the length of the
\* collection's dimension
SearchedWithWrongLength ==
    /\ last.op = "search" /\ collection_exists(last.pre)
    /\ last.args.d # TheIndex(last.pre).d

\* C19: a search whose query vector has not the collection's dimension fails,
\* returning no ids, no scores and no metadata, whatever the size of the
\* collection, and leaves the collection in memory and on disk as it was
C19_WrongLengthQueryFails ==
    SearchedWithWrongLength => last.ret = NoHits /\ CollectionUnchanged

\* a query of length 3 was refused by a collection of dimension 4 that holds
\* two vectors, one of them at the query's grid point
C19_Witness ==
    /\ SearchedWithWrongLength
    /\ IndexSize(last.pre) = 2
    /\ last.args.vecs[1] \in Range(TheIndex(last.pre).vecs)
    /\ last.ret = NoHits

\* a score is exp(-exponent / 10000) or, underflowed, 0.0
ScorePositive(a) == ~a.zero /\ a.exponent >= 0
ScoreGeq(a, b) == b.zero \/ (~a.zero /\ a.exponent <= b.exponent)

\* the squared distance, in units of 1e-4, from the query of the search just
\* made to the vector that had the given id before it
QueryDistance(id) == DistE4(TheIndex(last.pre).vecs[id + 1], last.args.vecs[1])

\* the three lists of a search result have one length, at most topK and at most
\* the size of the index; every id is the id of a stored vector; position i of
\* the scores and of the metadata belongs to the vector ids[i]
ParallelLists ==
    LET ids == last.ret.ids
        n == Len(ids)
    IN  /\ Len(last.ret.scores) = n /\ Len(last.ret.metadata) = n
        /\ n <= last.args.top_k /\ n <= IndexSize(last.pre)
        /\ \A i \in 1..n :
               /\ ids[i] # 0 - 1
               /\ ids[i] \in 0..(IndexSize(last.pre) - 1)
               /\ last.ret.scores[i] = Similarity(QueryDistance(ids[i]))
               /\ last.ret.metadata[i] = MetaEntry(TheMetadata(last.pre), ids[i]).e

\* C20 as stated: a search returns three lists of one length n, at most
\* min(topK, index.size); no id is -1; position i of each list describes the
\* same vector; every score lies in (0, 1]; the scores do not increase, and
\* equal scores come in ascending id order
C20_SearchResultShape_AsStated ==
    last.op = "search" =>
        /\ ParallelLists
        /\ \A i \in DOMAIN last.ret.scores : ScorePositive(last.ret.scores[i])
        /\ \A i, j \in DOMAIN last.ret.ids :
               i < j => /\ ScoreGeq(last.ret.scores[i], last.ret.scores[j])
                        /\ last.ret.scores[i] = last.ret.scores[j]
                               => last.ret.ids[i] < last.ret.ids[j]

\* C20 amended: a search returns three lists of one length n, at most
\* min(topK, index.size); no id is -1; position i of each list describes the
\* same vector; every score lies in [0, 1], 0 being the score of a vector so
\* far away that the exponential underflows; the hits come in order of
\* distance, equal distances in ascending id order, so that the scores do not
\* increase
C20_SearchResultShape ==
    last.op = "search" =>
        /\ ParallelLists
        /\ \A i \in DOMAIN last.ret.scores :
               last.ret.scores[i].zero \/ ScorePositive(last.ret.scores[i])
        /\ \A i, j \in DOMAIN last.ret.ids :
               i < j => /\ QueryDistance(last.ret.ids[i]) <= QueryDistance(last.ret.ids[j])
                        /\ QueryDistance(last.ret.ids[i]) = QueryDistance(last.ret.ids[j])
                               => last.ret.ids[i] < last.ret.ids[j]
                        /\ ScoreGeq(last.ret.scores[i], last.ret.scores[j])

\* a search for the two nearest of three stored vectors returned two hits at
\* the same distance, the lower id first, and left out a nearer-numbered
\* vector that is farther away
C20_Witness ==
    /\ last.op = "search" /\ last.args.top_k = 2
    /\ IndexSize(last.pre) = 3
    /\ Len(last.ret.ids) = 2
    /\ last.ret.scores[1] = last.ret.scores[2]
    /\ ScorePositive(last.ret.scores[1])
    /\ last.ret.ids[1] < last.ret.ids[2]
    /\ 0 \notin Range(last.ret.ids)

\* the step just taken is a search or a diagnose of an existing collection
ReadExisting ==
    /\ last.op \in {"search", "diagnose"}
    /\ collection_exists(last.pre)

\* C21: search and diagnose do not change the collection: the index, the
\* Metadata Table and the File Registry as the operations see them, and the
\* three artifacts, are the same after the call as before it, also when the
\* caches are ahead of the artifacts after a failed save
C21_ReadsLeaveCollection ==
    ReadExisting =>
        /\ TheIndex(Store) = TheIndex(last.pre)
        /\ TheMetadata(Store) = TheMetadata(last.pre)
        /\ TheRegistry(Store) = TheRegistry(last.pre)
        /\ disk_index = last.pre.f_idx
        /\ disk_meta = last.pre.f_meta
        /\ disk_registry = last.pre.f_reg


\* p is a prefix of q
IsPrefix(p, q) == Len(p) <= Len(q) /\ SubSeq(q, 1, Len(p)) = p

\* C22: the Change Log artifact only grows: for every operation other than
\* deleteCollection the events on disk before the operation are a prefix of
\* the events on disk after it, also when the operation is the first one
\* after a restart, with empty caches and events already in the file
C22_ChangeLogOnlyGrows ==
    last.op \notin {"init", "deleteCollection"} =>
        IsPrefix(last.pre.f_hist.events, disk_history.events)


\* the two calls have returned
BothReturned == \A c \in Callers : calls[c].pc = "done"

\* the store the first of the two calls began in
RaceBase == calls[CHOOSE c \in Callers : calls[c].turn = 0].pre

\* the store after call x and then call y, one after the other
SerialOrder(x, y) ==
    LET kx == calls[x]
        ky == calls[y]
    IN  add_vectors(add_vectors(RaceBase, kx.d, Items(kx.vecs), kx.path).s,
                    ky.d, Items(ky.vecs), ky.path).s

\* the other call's vectors entered the index between the call's before_count
\* and its after_count
Torn(c) ==
    /\ calls[c].acc # <<>>
    /\ calls[c].after - calls[c].before # Len(calls[c].acc)

SameCollection(s) ==
    indexes = s.idx /\ metadata = s.meta /\ file_registry = s.reg

\* two Versions of the registry list a common vector id
OverlappingVersions ==
    \E i1, i2 \in DOMAIN file_registry.entries :
        \E j1 \in DOMAIN file_registry.entries[i1].versions,
           j2 \in DOMAIN file_registry.entries[i2].versions :
            /\ <<i1, j1>> # <<i2, j2>>
            /\ Range(file_registry.entries[i1].versions[j1].vector_ids)
                 \cap Range(file_registry.entries[i2].versions[j2].vector_ids) # {}

\* the Version the call appended lists more ids than the call supplied
OvercountedVersion(c) ==
    LET k == calls[c]
        e == RecordOf(file_registry, basename(k.path))
    IN  /\ HasRecord(file_registry, basename(k.path))
        /\ \E j \in DOMAIN e.versions :
               /\ e.versions[j].vector_ids = IdRange(k.before, k.after - k.before)
               /\ e.versions[j].vector_count > Len(k.acc)

\* C23: when the steps of two addVectors calls interleave so that one call's
\* vectors enter the index between the other's count before and count after,
\* an update is torn: the index, Metadata Table and File Registry the two
\* calls leave differ from the result of both serial orders, the Version of
\* the torn call has more vector_ids than the call supplied, and two Versions
\* list overlapping vector_ids
C23_InterleavedAddsTear ==
    (BothReturned /\ \E c \in Callers : Torn(c)) =>
        /\ \A x, y \in Callers : x # y => ~SameCollection(SerialOrder(x, y))
        /\ \A c \in Callers : Torn(c) => OvercountedVersion(c)
        /\ OverlappingVersions

\* both calls read the size of the empty index before either appended its
\* vector: both Versions list the ids 0 and 1 of a two-vector index
C23_Witness ==
    /\ BothReturned
    /\ \A c \in Callers : Torn(c) /\ calls[c].before = 0 /\ calls[c].ret.status = "success"
    /\ Len(indexes.vecs) = 2
    /\ OverlappingVersions
    /\ \A x, y \in Callers : x # y => ~SameCollection(SerialOrder(x, y))


\* the version numbers of a File Record, in list order
VersionNumbers(e) == [j \in DOMAIN e.versions |-> e.versions[j].version]

StrictlyIncreasing(q) == \A i, j \in DOMAIN q : i < j => q[i] < q[j]

\* the step just taken is an addVectors that accepted a vector for a file name
\* that had a File Record
AddedToKnownFile ==
    /\ last.op = "addVectors" /\ last.ret.status = "success" /\ last.ret.count > 0
    /\ HasRecord(TheRegistry(last.pre), basename(last.args.path))

\* C24: an addVectors that accepts a vector for a file name that has a File
\* Record appends one Version numbered (maximum existing version number + 1)
\* and makes it the current version; the version numbers of every File Record
\* are strictly increasing in list order, also after restoreFileVersion moved
\* current_version back
C24_VersionNumbersIncrease ==
    /\ AddedToKnownFile =>
           LET old == RecordOf(TheRegistry(last.pre), basename(last.args.path))
               new == RecordOf(file_registry, basename(last.args.path))
               n == Len(old.versions)
           IN  /\ Len(new.versions) = n + 1
               /\ SubSeq(new.versions, 1, n) = old.versions
               /\ new.versions[n + 1].version = SetMax(Range(VersionNumbers(old))) + 1
               /\ new.current_version = new.versions[n + 1].version
    /\ \A i \in FileRecords(TheRegistry(Store)) :
           StrictlyIncreasing(VersionNumbers(TheRegistry(Store).entries[i]))

\* the file had versions 1 and 2 with version 1 restored as the current one,
\* and the insert appended version 3
C24_Witness ==
    /\ AddedToKnownFile
    /\ RecordOf(TheRegistry(last.pre), basename(last.args.path)).current_version = 1
    /\ VersionNumbers(RecordOf(TheRegistry(last.pre), basename(last.args.path))) = <<1, 2>>
    /\ VersionNumbers(RecordOf(file_registry, basename(last.args.path))) = <<1, 2, 3>>
    /\ RecordOf(file_registry, basename(last.args.path)).current_version = 3


\* the step just taken is an addVectors that accepted at least one vector
AcceptedSome ==
    last.op = "addVectors" /\ last.ret.status = "success" /\ last.ret.count > 0

\* the Version the step appended to the record of its file
NewVersion ==
    LET e == RecordOf(file_registry, basename(last.args.path))
    IN  e.versions[Len(e.versions)]

\* the ids that the Versions of a registry list
ListedIds(reg) == UNION {IdsOf(reg.entries[i]) : i \in FileRecords(reg)}

\* C25: without an index rebuild in between, the vector_ids addVectors gives to
\* a new Version are exactly the ids from the old index size up to the old
\* index size plus the number of accepted vectors, and none of them is listed
\* by a Version that was in the File Registry before
C25_IdsNeverReused ==
    AcceptedSome =>
        /\ HasRecord(file_registry, basename(last.args.path))
        /\ NewVersion.vector_ids = IdRange(IndexSize(last.pre), last.ret.count)
        /\ Range(NewVersion.vector_ids) \cap ListedIds(TheRegistry(last.pre)) = {}
        /\ Len(indexes.vecs) = IndexSize(last.pre) + last.ret.count

\* a vector was accepted into an index that held one, whose id 0 a Version of
\* the registry lists: the new Version lists id 1
C25_Witness ==
    /\ AcceptedSome
    /\ IndexSize(last.pre) = 1
    /\ ListedIds(TheRegistry(last.pre)) = {0}
    /\ NewVersion.vector_ids = <<1>>


\* C26: verifyAll returns one report per known collection: every name that
\* listCollections returns has an entry in the results, so the number of
\* entries is checked_collections, also for a collection whose name is
\* percent-encoded on disk
C26_VerifyReportsEveryCollection ==
    (last.op = "verifyAll" /\ last.ret.status = "completed") =>
        /\ \A i \in DOMAIN list_collections(last.pre, last.args.file) :
               \E e \in last.ret.results :
                   e.name = list_collections(last.pre, last.args.file)[i]
        /\ Cardinality(last.ret.results) = last.ret.checked_collections


\* C27: after any sequence of createCollection, addVectors, replaceFile,
\* deleteFile and deleteVectors every id below the index size is listed in the
\* vector_ids of some Version of some File Record
C27_EveryVectorHasOwner ==
    collection_exists(Store) =>
        \A id \in 0..(IndexSize(Store) - 1) : id \in ListedIds(TheRegistry(Store))


\* C28: deleteVectors is all-or-nothing: when it returns failure, the index,
\* the Metadata Table, the File Registry with every Version's vector_ids and
\* vector_count, and the Change Log are as they were before the call
C28_FailedDeleteChangesNothing ==
    (last.op = "deleteVectors" /\ last.ret = FALSE /\ collection_exists(last.pre)) =>
        /\ TheIndex(Store) = TheIndex(last.pre)
        /\ TheMetadata(Store) = TheMetadata(last.pre)
        /\ TheRegistry(Store) = TheRegistry(last.pre)
        /\ TheHistory(Store) = TheHistory(last.pre)

\* the sum of vector_count over the Versions of a File Record
VersionCountSum(e) == SeqSum([j \in DOMAIN e.versions |-> e.versions[j].vector_count])

\* C29: in every reachable state the vector_count of every File Record is the
\* sum of the vector_count of its Versions, and the vector_count of every
\* Version is the length of its vector_ids
C29_CountsAddUp ==
    \A i \in FileRecords(TheRegistry(Store)) :
        LET e == TheRegistry(Store).entries[i]
        IN  /\ e.vector_count = VersionCountSum(e)
            /\ \A j \in DOMAIN e.versions :
                   e.versions[j].vector_count = Len(e.versions[j].vector_ids)


\* the store replaceFile works on once its caches are loaded, and the File
\* Record of the replaced file in it
ReplaceLoaded == LoadForFile(last.pre)

ReplacesKnownVersion ==
    /\ HasKey(ReplaceLoaded.reg.entries, basename(last.args.path))
    /\ CurrentVersionIds(ReplaceLoaded.reg.entries[
           KeyPos(ReplaceLoaded.reg.entries, basename(last.args.path))]).found

\* what the deleteVectors inside replaceFile returned
InnerDeleteRet ==
    delete_vectors(ReplaceLoaded,
                   Range(CurrentVersionIds(ReplaceLoaded.reg.entries[
                       KeyPos(ReplaceLoaded.reg.entries, basename(last.args.path))]).ids)).ret

\* C30: replaceFile reports success only when both of its steps succeeded: its
\* result is falsy when the inner deleteVectors failed or the inner addVectors
\* returned an error status
C30_ReplaceSucceedsOnlyWhole ==
    (last.op = "replaceFile" /\ last.ret.ok) =>
        /\ last.ret.add.status = "success"
        /\ ReplacesKnownVersion => InnerDeleteRet = TRUE

====
